---- MODULE Spec2Model ----
(***************************************************************************)
(* AllWrite (Writer's Suite): the panel layout engine.                     *)
(*                                                                         *)
(*   PanelSystem   the panel store, the drag controller, snapshot/restore  *)
(*   App           section setup / reconciliation, saving, split layout    *)
(*                                                                         *)
(*   main process  the layout state file, the get / save IPC handlers      *)
(*                                                                         *)
(* The specifications share the variables:                                 *)
(*   SpecStore   arbitrary call sequences on one PanelSystem               *)
(*   SpecDrag    pointer events on the panels of one PanelSystem           *)
(*   SpecLayout  adjustCharacterPanelLayout over container widths / views  *)
(*   Spec        the App: sections, setup dialogs, drags, delayed saves    *)
(*   SpecAppDrag the App: drags of a section's panels                      *)
(*   SpecResize  the App: the debounced resize listener                    *)
(*   SpecPersist startup, the state file, saves through the main process   *)
(*   SpecViews   the character views and their shared sort / filter state  *)
(*   SpecSetup   a section entered again while its setup dialog is open    *)
(*   SpecChars   the CharacterManager: create, update, delete, load        *)
(***************************************************************************)
EXTENDS Integers, Sequences, FiniteSets, TLC

VARIABLES
  panels,         \* PanelSystem.panels: insertion-ordered Map, as a sequence of entries
  dom,            \* the panel elements that exist: handle -> element (style, parent, classes)
  draggingPanel,  \* PanelSystem.draggingPanel: an element handle, or NoPanel
  dragOffset,     \* PanelSystem.dragOffset
  container,      \* the layout container's size (its bounding rect width / height)
  threw,          \* the last handler ended with an uncaught TypeError
  last,           \* the last call made: its name and its arguments
  isProjectLoaded,        \* App.isProjectLoaded
  enabledSections,        \* the current project's enabledSections
  currentSection,         \* App.currentSection ("" for null)
  savedLayouts,           \* App.savedLayouts: section -> saved layout (<<>> when absent)
  setupSections,          \* App.setupSections: section -> setup completed
  sectionPanelSelections, \* App.sectionPanelSelections: section -> selected ids
  dialogs,                \* setup dialogs on screen, each a suspended loadSection
  saveTimers,             \* pending setTimeout(saveProjectState, 50)
  sent,                   \* every state handed to electronAPI.saveLayoutState so far: the last one and their number
  currentView,            \* window.currentCharacterView ("" while undefined)
  charRefs,               \* window.characterListPanel / characterEditorPanel, set when the
                          \* character handlers and the resize listener are registered
  adjustTimers,           \* pending setTimeout(adjustCharacterPanelLayout(false), 0)
  resizeTimer,            \* the timer of the registered resize listener's debounce closure:
                          \* ms left until it fires, 0 when none is pending
  staleTimers,            \* the pending timers of debounce closures whose listener was
                          \* removed: ms left until each fires
  mainRunning,            \* the main process has started (app.whenReady has resolved)
  stateFile,              \* layoutState.json on disk: absent, or its text
  currentLayoutState,     \* main.js currentLayoutState (NoState for null)
  toMain,                 \* IPC messages sent by the renderer, not yet handled by main
  toRenderer,             \* 'layout-state' replies sent by main, not yet received
  rendererPhase,          \* "none", "loading" (window created), "awaiting" (init waits for
                          \* the reply), "ready" (init has finished)
  requests,               \* the 'get-layout-state' messages the renderer has sent
  isReady,                \* App.isReady
  homeRendered,           \* showHomeScreen has put the home screen into #home-container
  mainThrew,              \* a call in the main process ended with an uncaught error
  viewInstance,           \* the character view object constructed last (list, card or
                          \* importance): its sortBy, importanceFilter and genderFilter
  characterViewState,     \* App.characterViewState, handed to every view as sharedState
  characters,             \* CharacterManager.characters: id and flagId of each
  customFlags             \* CharacterManager.customFlags: their ids

panelVars == <<panels, dom, draggingPanel, dragOffset, container, threw, last>>

sectionVars ==
  <<isProjectLoaded, enabledSections, currentSection, savedLayouts, setupSections,
    sectionPanelSelections, dialogs, saveTimers, sent>>

viewVars == <<currentView, charRefs, adjustTimers, resizeTimer, staleTimers, viewInstance>>

mainVars ==
  <<mainRunning, stateFile, currentLayoutState, toMain, toRenderer, rendererPhase,
    requests, isReady, homeRendered, mainThrew>>

charVars == <<characterViewState, characters, customFlags>>

appVars == <<sectionVars, viewVars, mainVars, charVars>>

vars == <<panelVars, sectionVars, viewVars, mainVars, charVars>>

----------------------------------------------------------------------------
(* Bounds of the model *)

\* most elements alive at once (tracked, orphaned in a container, or being dragged)
MaxEls == 2
\* stacking orders are explored up to this value
MaxZ == 2

----------------------------------------------------------------------------
(* Values of the DOM: an inline style property is the empty tuple when it is
   unset and <<n>> when it holds the number n (followed by 'px' for lengths) *)

NoPanel == 0
NoParent == "none"
Unset == <<>>

\* n + 'px'
Px(n) == <<n>>

\* parseInt of a style value that was written as n + 'px' (or as a number)
ParseInt(v) == v[1]

\* parseInt(v) || 0: NaN (from 'auto' or an unset value) becomes 0
ParseIntOrZero(v) == IF v = Unset THEN 0 ELSE v[1]

Max2(a, b) == IF a >= b THEN a ELSE b
Min2(a, b) == IF a <= b THEN a ELSE b

\* element.offsetWidth / offsetHeight: 0 for an element that is not rendered
\* (display none, or detached), else its laid-out size
offsetWidth(el) ==
  IF el.display = "none" \/ el.parent = NoParent THEN 0 ELSE ParseInt(el.width)

offsetHeight(el) ==
  IF el.display = "none" \/ el.parent = NoParent THEN 0 ELSE ParseInt(el.height)

\* panelConfig.hidden: undefined (falsy) on configs that carry no such field
IsHidden(cfg) == IF "hidden" \in DOMAIN cfg THEN cfg.hidden ELSE FALSE

\* document.createElement: a fresh element identity
NewHandle(D) == CHOOSE h \in 1..(Cardinality(DOMAIN D) + 1) : h \notin DOMAIN D

\* elements no longer attached and no longer referenced are gone
Collect(D, refs) == [h \in {k \in DOMAIN D : D[k].parent # NoParent \/ k \in refs} |-> D[h]]

----------------------------------------------------------------------------
(* The Map this.panels *)

HasKey(P, id) == \E i \in DOMAIN P : P[i].id = id

\* Map.prototype.get: the entry, or the empty tuple when absent
MapGet(P, id) ==
  IF HasKey(P, id) THEN <<P[CHOOSE i \in DOMAIN P : P[i].id = id]>> ELSE <<>>

\* a store that appends blindly
MapSetAppend(P, entry) == Append(P, entry)

\* Map.prototype.set: an existing key keeps its place and gets the new value
MapSet(P, entry) ==
  IF HasKey(P, entry.id)
    THEN [i \in DOMAIN P |-> IF P[i].id = entry.id THEN entry ELSE P[i]]
    ELSE Append(P, entry)

\* Map.prototype.delete
MapDelete(P, id) == SelectSeq(P, LAMBDA e : e.id # id)

TrackedIds(P) == {P[i].id : i \in DOMAIN P}
TrackedEls(P) == {P[i].element : i \in DOMAIN P}

----------------------------------------------------------------------------
(* PanelSystem: the operations, as functions of the store P (this.panels) and
   the elements D *)

\* where the layout container sits in the viewport (its bounding rect's corner)
ContainerOrigin == [left |-> 20, top |-> 10]

\* element.getBoundingClientRect() of a panel: all zero when it is not rendered
PanelRect(el) ==
  IF el.display = "none" \/ el.parent = NoParent
    THEN [left |-> 0, top |-> 0]
    ELSE [left |-> ContainerOrigin.left + ParseInt(el.left),
          top  |-> ContainerOrigin.top + ParseInt(el.top)]

\* the element createPanel builds from a configuration
NewElement(cfg, cont) ==
  [id       |-> cfg.id,
   left     |-> Px(cfg.x),
   top      |-> Px(cfg.y),
   width    |-> Px(cfg.width),
   height   |-> Px(cfg.height),
   display  |-> IF IsHidden(cfg) THEN "none" ELSE "",
   zIndex   |-> Unset,
   parent   |-> cont,
   dragging |-> FALSE,
   header   |-> TRUE]

createPanel(P, D, cfg, cont) ==
  LET h == NewHandle(D) IN
  [panels |-> MapSet(P, [id |-> cfg.id, element |-> h, config |-> cfg]),
   dom    |-> (h :> NewElement(cfg, cont)) @@ D]

\* panelConfigs.forEach(createPanel)
RECURSIVE createPanels(_, _, _, _)
createPanels(P, D, cfgs, cont) ==
  IF cfgs = <<>> THEN [panels |-> P, dom |-> D]
  ELSE LET r == createPanel(P, D, Head(cfgs), cont)
       IN createPanels(r.panels, r.dom, Tail(cfgs), cont)

\* element.remove()
Detach(D, h) == [D EXCEPT ![h].parent = NoParent]

\* a removePanel without its `if (panel)` guard
removePanelUnguarded(P, D, id) ==
  [panels |-> MapDelete(P, id), dom |-> D, threw |-> ~HasKey(P, id)]

removePanel(P, D, id) ==
  LET got == MapGet(P, id) IN
  IF got # <<>>
    THEN [panels |-> MapDelete(P, id), dom |-> Detach(D, got[1].element), threw |-> FALSE]
    ELSE [panels |-> P, dom |-> D, threw |-> FALSE]

clearAllPanels(P, D) ==
  [panels |-> <<>>,
   dom    |-> [h \in DOMAIN D |->
                 IF h \in TrackedEls(P) THEN [D[h] EXCEPT !.parent = NoParent] ELSE D[h]]]

\* a scan that forgets to keep the maximum
getHighestZIndexLast(P, D) ==
  IF P = <<>> THEN 0 ELSE ParseIntOrZero(D[P[Len(P)].element].zIndex)

RECURSIVE HighestFrom(_, _, _, _)
HighestFrom(P, D, i, highest) ==
  IF i > Len(P) THEN highest
  ELSE HighestFrom(P, D, i + 1, Max2(highest, ParseIntOrZero(D[P[i].element].zIndex)))

getHighestZIndex(P, D) == HighestFrom(P, D, 1, 0)

\* mousedown on the header of element h, at viewport position ev
startDrag(P, D, h, ev) ==
  LET rect == PanelRect(D[h]) IN
  [draggingPanel |-> h,
   dragOffset    |-> [x |-> ev.clientX - rect.left, y |-> ev.clientY - rect.top],
   dom           |-> [D EXCEPT ![h].dragging = TRUE,
                                ![h].zIndex = <<getHighestZIndex(P, D) + 1>>]]

\* the position drag() computes for pointer position p along one axis
DragClampLowOnly(p, origin, offset, extent, size) ==
  Max2(0, p - origin - offset)

DragClamp(p, origin, offset, extent, size) ==
  Max2(0, Min2(p - origin - offset, extent - size))

\* mousemove at viewport position ev
drag(D, dp, off, cont, ev) ==
  IF dp = NoPanel THEN [dom |-> D, threw |-> FALSE]
  ELSE IF D[dp].parent = NoParent
    THEN [dom |-> D, threw |-> TRUE]   \* parentElement is null
  ELSE
    LET x == DragClamp(ev.clientX, ContainerOrigin.left, off.x, cont.width, offsetWidth(D[dp]))
        y == DragClamp(ev.clientY, ContainerOrigin.top, off.y, cont.height, offsetHeight(D[dp]))
    IN [dom |-> [D EXCEPT ![dp].left = Px(x), ![dp].top = Px(y)], threw |-> FALSE]

\* a stopDrag that notifies whether or not a drag was active
stopDragAlways(D, dp) ==
  IF dp # NoPanel
    THEN [dom |-> [D EXCEPT ![dp].dragging = FALSE], draggingPanel |-> NoPanel, called |-> TRUE]
    ELSE [dom |-> D, draggingPanel |-> dp, called |-> TRUE]

\* mouseup: one document listener's call of stopDrag(onStateChange)
stopDrag(D, dp) ==
  IF dp # NoPanel
    THEN [dom |-> [D EXCEPT ![dp].dragging = FALSE], draggingPanel |-> NoPanel, called |-> TRUE]
    ELSE [dom |-> D, draggingPanel |-> dp, called |-> FALSE]

\* a snapshot entry taken from the configuration the panel was created with
PanelStateOfConfig(entry, el) ==
  [id     |-> entry.config.id,
   title  |-> entry.config.title,
   x      |-> entry.config.x,
   y      |-> entry.config.y,
   width  |-> entry.config.width,
   height |-> entry.config.height]

\* one entry of getPanelState()
PanelStateOf(entry, el) ==
  [id     |-> entry.config.id,
   title  |-> entry.config.title,
   x      |-> ParseInt(el.left),
   y      |-> ParseInt(el.top),
   width  |-> offsetWidth(el),
   height |-> offsetHeight(el)]

getPanelState(P, D) == [i \in DOMAIN P |-> PanelStateOf(P[i], D[P[i].element])]

\* a restore that creates the panels it does not find
RECURSIVE restorePanelStateCreating(_, _, _)
restorePanelStateCreating(P, D, state) ==
  IF state = <<>> THEN [panels |-> P, dom |-> D]
  ELSE LET s == Head(state)
           got == MapGet(P, s.id)
           r == IF got # <<>>
                  THEN [panels |-> P,
                        dom |-> [D EXCEPT ![got[1].element].left = Px(s.x),
                                          ![got[1].element].top = Px(s.y),
                                          ![got[1].element].width = Px(s.width),
                                          ![got[1].element].height = Px(s.height)]]
                  ELSE createPanel(P, D, s, "layout")
       IN restorePanelStateCreating(r.panels, r.dom, Tail(state))

RECURSIVE restorePanelState(_, _, _)
restorePanelState(P, D, state) ==
  IF state = <<>> THEN [panels |-> P, dom |-> D]
  ELSE LET s == Head(state)
           got == MapGet(P, s.id)
           D2 == IF got # <<>>
                   THEN [D EXCEPT ![got[1].element].left = Px(s.x),
                                  ![got[1].element].top = Px(s.y),
                                  ![got[1].element].width = Px(s.width),
                                  ![got[1].element].height = Px(s.height)]
                   ELSE D
       IN restorePanelState(P, D2, Tail(state))

SetDisplay(P, D, id, value) ==
  LET got == MapGet(P, id) IN
  IF got # <<>> THEN [D EXCEPT ![got[1].element].display = value] ELSE D

showPanel(P, D, id) == SetDisplay(P, D, id, "block")

hidePanel(P, D, id) == SetDisplay(P, D, id, "none")

togglePanel(P, D, id) ==
  LET got == MapGet(P, id) IN
  IF got # <<>>
    THEN [D EXCEPT ![got[1].element].display =
                      IF D[got[1].element].display = "none" THEN "block" ELSE "none"]
    ELSE D

----------------------------------------------------------------------------
(* The layout templates and the App's state *)

Sections == {"writing", "plotting", "characters", "worldbuilding", "research"}

layouts ==
  [s \in Sections |->
     CASE s = "writing" ->
            << [id |-> "editor", title |-> "Editor", x |-> 0, y |-> 0, width |-> 800, height |-> 600],
               [id |-> "character-panel", title |-> "Characters", x |-> 810, y |-> 0, width |-> 350, height |-> 280],
               [id |-> "world-panel", title |-> "World Notes", x |-> 810, y |-> 290, width |-> 350, height |-> 310] >>
       [] s = "plotting" ->
            << [id |-> "plot-board", title |-> "Plot Board", x |-> 0, y |-> 0, width |-> 900, height |-> 600],
               [id |-> "story-elements", title |-> "Story Elements", x |-> 910, y |-> 0, width |-> 250, height |-> 600] >>
       [] s = "characters" ->
            << [id |-> "character-list", title |-> "Character List", x |-> 0, y |-> 0, width |-> 1200, height |-> 600],
               [id |-> "character-editor", title |-> "Character Details", x |-> 910, y |-> 0, width |-> 500, height |-> 600, hidden |-> TRUE] >>
       [] s = "worldbuilding" ->
            << [id |-> "world-tree", title |-> "World Structure", x |-> 0, y |-> 0, width |-> 250, height |-> 600],
               [id |-> "world-editor", title |-> "World Details", x |-> 260, y |-> 0, width |-> 900, height |-> 600] >>
       [] s = "research" ->
            << [id |-> "research-list", title |-> "Research Items", x |-> 0, y |-> 0, width |-> 400, height |-> 600],
               [id |-> "research-viewer", title |-> "Research Details", x |-> 410, y |-> 0, width |-> 750, height |-> 600] >> ]

IdsOfLayout(cfgs) == [i \in DOMAIN cfgs |-> cfgs[i].id]

SeqToSet(q) == {q[i] : i \in DOMAIN q}

\* what getLayoutState delivered: null, or a state with these three fields
NoState == <<>>

NoRefs == [list |-> NoPanel, editor |-> NoPanel]

\* layoutState.json: absent, text that JSON.parse rejects, or JSON text
FileAbsent == [kind |-> "absent", value |-> NoState]

FileGarbage == [kind |-> "garbage", value |-> NoState]

\* JSON.stringify(state, null, 2): the text of a state (of null when NoState)
stringify(state) == [kind |-> "json", value |-> state]

\* JSON.parse(data): the value of a JSON text, a SyntaxError for any other
parse(data) ==
  IF data.kind = "json" THEN [value |-> data.value, threw |-> FALSE]
                        ELSE [value |-> NoState, threw |-> TRUE]

\* the try block of loadLayoutState (readOk: readFileSync succeeds)
readAndParse(file, readOk) ==
  IF file.kind = "absent" THEN [value |-> NoState, threw |-> FALSE]
  ELSE IF ~readOk THEN [value |-> NoState, threw |-> TRUE]
  ELSE parse(file)

\* loadLayoutState(): an error of the try block is caught and null returned
loadLayoutState(file, readOk) ==
  LET r == readAndParse(file, readOk) IN
  IF r.threw THEN [value |-> NoState, threw |-> FALSE] ELSE r

\* what a write to the state file can do: succeed, fail and leave the file as
\* it was, fail after part of the text was written
WriteOutcomes == {"ok", "failed", "partial"}

\* the try block of saveLayoutState: ensureStateDirectory and writeFileSync
writeState(file, state, outcome) ==
  [file  |-> IF outcome = "ok" THEN stringify(state)
             ELSE IF outcome = "partial" THEN FileGarbage ELSE file,
   threw |-> outcome # "ok"]

\* a saveLayoutState without its catch
saveLayoutStateUncaught(file, state, outcome) == writeState(file, state, outcome)

\* saveLayoutState(state): an error of the try block is caught
saveLayoutState(file, state, outcome) ==
  [file |-> writeState(file, state, outcome).file, threw |-> FALSE]

\* the main process and the renderer once startup is over: main has loaded
\* state, the renderer has asked for it once and init has finished
MainAfterStartup(state) ==
  /\ mainRunning = TRUE
  /\ stateFile = IF state = NoState THEN FileAbsent ELSE stringify(state)
  /\ currentLayoutState = state
  /\ toMain = <<>>
  /\ toRenderer = <<>>
  /\ rendererPhase = "ready"
  /\ requests = 1
  /\ isReady = TRUE
  /\ homeRendered = TRUE
  /\ mainThrew = FALSE

\* no character view has been constructed
NoView == <<>>

\* App.characterViewState as the constructor sets it; a filter is the set of
\* the ids whose property is true
DefaultViewState ==
  [sortBy           |-> "name-asc",
   importanceFilter |-> {"primary", "secondary", "tertiary"},
   genderFilter     |-> {"male", "female", "other"}]

\* a view that takes the defaults whatever the shared state holds
NewViewDefaults(sharedState) ==
  << [sortBy           |-> "name-asc",
      importanceFilter |-> {"primary", "secondary", "tertiary"},
      genderFilter     |-> {"male", "female", "other"}] >>

\* the constructor of CharacterListView, CharacterCardView and
\* CharacterImportanceView: sort and filters are copied from sharedState
NewView(sharedState) ==
  << [sortBy           |-> IF sharedState.sortBy # "" THEN sharedState.sortBy ELSE "name-asc",
      importanceFilter |-> sharedState.importanceFilter,
      genderFilter     |-> sharedState.genderFilter] >>

\* the App's character view state and a CharacterManager after construction
CharsInit ==
  /\ characterViewState = DefaultViewState
  /\ characters = <<>>
  /\ customFlags = <<>>

\* the fields of the App after construction and loadAppState(state)
AppStateWith(state) ==
  /\ isProjectLoaded = FALSE
  /\ enabledSections = <<>>
  /\ currentSection = ""
  /\ savedLayouts = IF state = NoState THEN [s \in Sections |-> <<>>] ELSE state[1].panelLayouts
  /\ setupSections = IF state = NoState THEN [s \in Sections |-> FALSE] ELSE state[1].setupSections
  /\ sectionPanelSelections =
       IF state = NoState THEN [s \in Sections |-> <<>>] ELSE state[1].sectionPanelSelections
  /\ dialogs = <<>>
  /\ saveTimers = 0
  /\ sent = NoState
  /\ currentView = ""
  /\ charRefs = NoRefs
  /\ adjustTimers = 0
  /\ resizeTimer = 0
  /\ staleTimers = <<>>
  /\ viewInstance = NoView
  /\ CharsInit

\* the App after construction and loadAppState(state), startup over
AppInitWith(state) == AppStateWith(state) /\ MainAfterStartup(state)

AppInit == AppInitWith(NoState)

----------------------------------------------------------------------------
(* App.adjustCharacterPanelLayout *)

MinEditorPx == 320
GapPx == 10
MinListPx == 280

\* maxEditorPct, in hundredths
MaxEditorPct(view) == IF view = "importance" THEN 65 ELSE 70

\* The products are IEEE-754 doubles. 0.7 and 1 - 0.65 lie just below 7/10 and
\* 35/100, so for the widths below the rounded product falls short of the exact
\* integer and Math.floor returns one less than the exact quotient. 0.65 and
\* 1 - 0.7 lie just above, and Math.floor agrees with the exact quotient. (The
\* two sets list every such width up to 2600.)
Low70 ==
  {90, 170, 180} \cup {330 + 10 * k : k \in 0..3} \cup {650 + 10 * k : k \in 0..8}
    \cup {1290 + 10 * k : k \in 0..17} \cup {2570 + 10 * k : k \in 0..3}

Low35 ==
  {180, 340, 360} \cup {660 + 20 * k : k \in 0..3} \cup {1300 + 20 * k : k \in 0..8}
    \cup {2580, 2600}

\* Math.floor(containerWidth * maxEditorPct)
FloorPct(W, view) ==
  IF view = "importance" THEN (W * 65) \div 100
  ELSE (W * 70) \div 100 - (IF W \in Low70 THEN 1 ELSE 0)

\* Math.floor(containerWidth * (1 - maxEditorPct))
FloorRestPct(W, view) ==
  IF view = "importance" THEN (W * 35) \div 100 - (IF W \in Low35 THEN 1 ELSE 0)
  ELSE (W * 30) \div 100

\* a clamp that lets the upper bound win over the lower one
clampMaxWins(val, min, max) == Min2(max, Max2(min, val))

\* a clamp without its lower bound
clampNoMin(val, min, max) == Min2(max, val)

\* a clamp that pins the value to its upper bound
clampToMax(val, min, max) == max

\* const clamp = (val, min, max) => Math.max(min, Math.min(max, val))
clamp(val, min, max) == Max2(min, Min2(max, val))

\* a split that keeps the base widths, with no bound applied
SplitWidthsNoClamp(W, view) ==
  [listWidth |-> FloorRestPct(W, view), editorWidth |-> W - FloorRestPct(W, view) - GapPx]

\* the two widths of the visible-editor branch
SplitWidths(W, view) ==
  LET listWidth0  == FloorRestPct(W, view)
      editorWidth == clamp(W - listWidth0 - GapPx, MinEditorPx, FloorPct(W, view))
      listWidth   == clamp(W - editorWidth - GapPx, MinListPx, W)
  IN [listWidth |-> listWidth, editorWidth |-> editorWidth]

\* document.getElementById: the first attached element with this id, or NoPanel
GetElementById(D, id) ==
  LET found == {h \in DOMAIN D : D[h].id = id /\ D[h].parent # NoParent} IN
  IF found = {} THEN NoPanel ELSE CHOOSE h \in found : \A k \in found : h <= k

\* a layout that splits the container whether or not the editor is visible
adjustCharacterPanelLayoutSplit(D, cont, view, editorVisible) ==
  LET listPanel   == GetElementById(D, "character-list")
      editorPanel == GetElementById(D, "character-editor")
      v           == IF view = "" THEN "list" ELSE view
      w           == SplitWidths(cont.width, v)
  IN IF listPanel = NoPanel \/ editorPanel = NoPanel THEN D
     ELSE [D EXCEPT ![listPanel].left = Px(0),
                    ![listPanel].top = Px(0),
                    ![listPanel].width = Px(w.listWidth),
                    ![listPanel].height = Px(cont.height),
                    ![editorPanel].left = Px(w.listWidth + GapPx),
                    ![editorPanel].top = Px(0),
                    ![editorPanel].width = Px(w.editorWidth),
                    ![editorPanel].height = Px(cont.height)]

\* App.adjustCharacterPanelLayout(editorVisible) on the elements D
adjustCharacterPanelLayout(D, cont, view, editorVisible) ==
  LET listPanel   == GetElementById(D, "character-list")
      editorPanel == GetElementById(D, "character-editor")
      v           == IF view = "" THEN "list" ELSE view
      w           == SplitWidths(cont.width, v)
  IN IF listPanel = NoPanel THEN D
     ELSE IF editorVisible /\ editorPanel # NoPanel
       THEN [D EXCEPT ![listPanel].left = Px(0),
                      ![listPanel].top = Px(0),
                      ![listPanel].width = Px(w.listWidth),
                      ![listPanel].height = Px(cont.height),
                      ![editorPanel].left = Px(w.listWidth + GapPx),
                      ![editorPanel].top = Px(0),
                      ![editorPanel].width = Px(w.editorWidth),
                      ![editorPanel].height = Px(cont.height)]
       ELSE [D EXCEPT ![listPanel].left = Px(0),
                      ![listPanel].top = Px(0),
                      ![listPanel].width = Px(cont.width),
                      ![listPanel].height = Px(cont.height)]

----------------------------------------------------------------------------
(* SpecStore and SpecDrag: one PanelSystem driven by arbitrary calls and pointer events *)

TestContainer == "layout"

\* configurations handed to createPanel when the store is exercised: a visible
\* panel and a template-hidden one
StoreConfigs ==
  { [id |-> "a", title |-> "A", x |-> 0,  y |-> 0, width |-> 40, height |-> 30],
    [id |-> "b", title |-> "B", x |-> 50, y |-> 0, width |-> 80, height |-> 30, hidden |-> TRUE] }

\* configurations handed to createPanel when panels are dragged: one that fits
\* the container and one wider and taller than it
DragConfigs ==
  { [id |-> "a", title |-> "A", x |-> 0, y |-> 0,  width |-> 40, height |-> 30],
    [id |-> "c", title |-> "C", x |-> 0, y |-> 20, width |-> 80, height |-> 60] }

\* ids that calls may name: those of the configurations and one never created
IdsOf(cfgs) == {cfg.id : cfg \in cfgs} \cup {"zz"}

\* the size of the layout container while the store and the drags are exercised
TestContainerSize == [width |-> 60, height |-> 50]

\* pointer positions in the viewport: left/above the container, inside it, beyond it
Pointers ==
  { [clientX |-> -30, clientY |-> -30],
    [clientX |-> 60,  clientY |-> 45],
    [clientX |-> 300, clientY |-> 300] }

\* where in its header a panel is grabbed, from the panel's corner
Grabs == { [x |-> 10, y |-> 5] }

\* states handed to restorePanelState
TestStates ==
  { << [id |-> "a", title |-> "A", x |-> 10, y |-> 10, width |-> 20, height |-> 20] >>,
    << [id |-> "zz", title |-> "Z", x |-> 5, y |-> 5, width |-> 10, height |-> 10],
       [id |-> "b", title |-> "B", x |-> 5, y |-> 0, width |-> 30, height |-> 30] >> }

PanelsInit ==
  /\ panels = <<>>
  /\ dom = <<>>
  /\ draggingPanel = NoPanel
  /\ dragOffset = [x |-> 0, y |-> 0]
  /\ threw = FALSE

\* an element whose header a mousedown can reach: attached, rendered, header in place
CanGrab(D, h) == D[h].parent # NoParent /\ D[h].display # "none" /\ D[h].header

CreatePanel(cfgs) ==
  \E cfg \in cfgs :
    /\ Cardinality(DOMAIN dom) < MaxEls
    /\ LET r == createPanel(panels, dom, cfg, TestContainer) IN
       /\ panels' = r.panels
       /\ dom' = r.dom
    /\ threw' = FALSE
    /\ last' = [op |-> "createPanel", id |-> "", arg |-> <<>>]
    /\ UNCHANGED <<draggingPanel, dragOffset, container>>

RemovePanel(ids) ==
  \E id \in ids :
    /\ LET r == removePanel(panels, dom, id) IN
       /\ panels' = r.panels
       /\ dom' = Collect(r.dom, {draggingPanel, charRefs.list, charRefs.editor})
       /\ threw' = r.threw
    /\ last' = [op |-> "removePanel", id |-> id, arg |-> <<>>]
    /\ UNCHANGED <<draggingPanel, dragOffset, container>>

ClearAllPanels ==
  /\ LET r == clearAllPanels(panels, dom) IN
     /\ panels' = r.panels
     /\ dom' = Collect(r.dom, {draggingPanel, charRefs.list, charRefs.editor})
  /\ threw' = FALSE
  /\ last' = [op |-> "clearAllPanels", id |-> "", arg |-> <<>>]
  /\ UNCHANGED <<draggingPanel, dragOffset, container>>

ShowPanel(ids) ==
  \E id \in ids :
    /\ dom' = showPanel(panels, dom, id)
    /\ threw' = FALSE
    /\ last' = [op |-> "showPanel", id |-> id, arg |-> <<>>]
    /\ UNCHANGED <<panels, draggingPanel, dragOffset, container>>

HidePanel(ids) ==
  \E id \in ids :
    /\ dom' = hidePanel(panels, dom, id)
    /\ threw' = FALSE
    /\ last' = [op |-> "hidePanel", id |-> id, arg |-> <<>>]
    /\ UNCHANGED <<panels, draggingPanel, dragOffset, container>>

TogglePanel(ids) ==
  \E id \in ids :
    /\ dom' = togglePanel(panels, dom, id)
    /\ threw' = FALSE
    /\ last' = [op |-> "togglePanel", id |-> id, arg |-> <<>>]
    /\ UNCHANGED <<panels, draggingPanel, dragOffset, container>>

\* mousedown on a panel header
MouseDown ==
  \E h \in DOMAIN dom, g \in Grabs :
    /\ CanGrab(dom, h)
    /\ getHighestZIndex(panels, dom) < MaxZ
    /\ LET rect == PanelRect(dom[h])
           r == startDrag(panels, dom, h,
                          [clientX |-> rect.left + g.x, clientY |-> rect.top + g.y])
       IN /\ draggingPanel' = r.draggingPanel
          /\ dragOffset' = r.dragOffset
          /\ dom' = Collect(r.dom, {r.draggingPanel, charRefs.list, charRefs.editor})
    /\ threw' = FALSE
    /\ last' = [op |-> "startDrag", id |-> "", arg |-> <<>>]
    /\ UNCHANGED <<panels, container>>

\* mousemove anywhere in the document, while a drag is active
MouseMove ==
  \E ev \in Pointers :
    /\ draggingPanel # NoPanel
    /\ LET r == drag(dom, draggingPanel, dragOffset, container, ev) IN
       /\ dom' = r.dom
       /\ threw' = r.threw
    /\ last' = [op |-> "drag", id |-> "", arg |-> <<>>]
    /\ UNCHANGED <<panels, draggingPanel, dragOffset, container>>

\* mouseup anywhere in the document, while a drag is active
MouseUp ==
  /\ draggingPanel # NoPanel
  /\ LET r == stopDrag(dom, draggingPanel) IN
     /\ draggingPanel' = r.draggingPanel
     /\ dom' = Collect(r.dom, {r.draggingPanel, charRefs.list, charRefs.editor})
  /\ threw' = FALSE
  /\ last' = [op |-> "stopDrag", id |-> "", arg |-> <<>>]
  /\ UNCHANGED <<panels, dragOffset, container>>

\* restorePanelState(getPanelState())
SnapshotRestore ==
  /\ dom' = restorePanelState(panels, dom, getPanelState(panels, dom)).dom
  /\ threw' = FALSE
  /\ last' = [op |-> "snapshotRestore", id |-> "", arg |-> <<>>]
  /\ UNCHANGED <<panels, draggingPanel, dragOffset, container>>

RestorePanelState ==
  \E state \in TestStates :
    LET r == restorePanelState(panels, dom, state) IN
    /\ panels' = r.panels
    /\ dom' = r.dom
    /\ threw' = FALSE
    /\ last' = [op |-> "restorePanelState", id |-> "", arg |-> state]
    /\ UNCHANGED <<draggingPanel, dragOffset, container>>

\* the store: every call of the PanelSystem interface except the pointer handlers
StoreNext ==
  \/ CreatePanel(StoreConfigs) /\ UNCHANGED appVars
  \/ RemovePanel(IdsOf(StoreConfigs)) /\ UNCHANGED appVars
  \/ ClearAllPanels /\ UNCHANGED appVars
  \/ ShowPanel(IdsOf(StoreConfigs)) /\ UNCHANGED appVars
  \/ HidePanel(IdsOf(StoreConfigs)) /\ UNCHANGED appVars
  \/ TogglePanel(IdsOf(StoreConfigs)) /\ UNCHANGED appVars
  \/ SnapshotRestore /\ UNCHANGED appVars
  \/ RestorePanelState /\ UNCHANGED appVars

\* the drag controller: pointer events on panels that are created, closed and
\* cleared meanwhile
DragNext ==
  \/ CreatePanel(DragConfigs) /\ UNCHANGED appVars
  \/ RemovePanel(IdsOf(DragConfigs)) /\ UNCHANGED appVars
  \/ ClearAllPanels /\ UNCHANGED appVars
  \/ MouseDown /\ UNCHANGED appVars
  \/ MouseMove /\ UNCHANGED appVars
  \/ MouseUp /\ UNCHANGED appVars

InitPanels ==
  /\ PanelsInit
  /\ container = TestContainerSize
  /\ last = [op |-> "new", id |-> "", arg |-> <<>>]
  /\ AppInit

SpecStore == InitPanels /\ [][StoreNext]_vars

SpecDrag == InitPanels /\ [][DragNext]_vars

----------------------------------------------------------------------------
(* App: saving, and the character views *)

\* #app-container is displayed from loadProject until goHome
AppShown == isProjectLoaded

\* the elements as layout sees them: nothing under a container with display
\* none is rendered
LaidOut(D, shown) ==
  IF shown THEN D ELSE [h \in DOMAIN D |-> [D[h] EXCEPT !.display = "none"]]

\* offsetWidth / offsetHeight of the layout container, or its bounding rect's size
ContainerSize == IF AppShown THEN container ELSE [width |-> 0, height |-> 0]

\* a save that stores the snapshot whether or not it is empty
SavedAfterSaveAlways(cs, SL, P, D) ==
  IF cs = "" THEN SL ELSE [SL EXCEPT ![cs] = getPanelState(P, D)]

\* the savedLayouts that saveProjectState leaves
SavedAfterSave(cs, SL, P, D) ==
  IF cs = "" THEN SL
  ELSE LET currentLayout == getPanelState(P, D) IN
       IF currentLayout # <<>> THEN [SL EXCEPT ![cs] = currentLayout] ELSE SL

\* saveProjectState() on the store P with elements D
SaveProjectState(P, D) ==
  /\ savedLayouts' = SavedAfterSave(currentSection, savedLayouts, P, D)
  /\ sent' = IF currentSection = "" THEN sent
             ELSE << [panelLayouts           |-> savedLayouts',
                      setupSections          |-> setupSections,
                      sectionPanelSelections |-> sectionPanelSelections] >>

Attached(D, h) == h # NoPanel /\ h \in DOMAIN D /\ D[h].parent # NoParent

\* the character list view is on screen: the panel it was rendered into is attached
ListViewShown == Attached(dom, charRefs.list)

\* the character editor form is on screen
EditorFormShown == Attached(dom, charRefs.editor) /\ dom[charRefs.editor].display # "none"

\* window.onCharacterSelected
CharacterSelected ==
  /\ ListViewShown
  /\ dom' = adjustCharacterPanelLayout(showPanel(panels, dom, "character-editor"),
                                       ContainerSize, currentView, TRUE)
  /\ threw' = FALSE
  /\ last' = [op |-> "adjustCharacterPanelLayout", id |-> "", arg |-> <<TRUE>>]
  /\ UNCHANGED <<panels, draggingPanel, dragOffset, container, sectionVars, viewVars>>

\* window.onCharacterUpdated: refreshCurrentCharacterView(), saveProjectState()
CharacterUpdated ==
  /\ EditorFormShown
  /\ dom' = adjustCharacterPanelLayout(hidePanel(panels, dom, "character-editor"),
                                       ContainerSize, currentView, FALSE)
  /\ currentView' = IF currentView = "" THEN "list" ELSE currentView
  /\ viewInstance' = NewView(characterViewState)
  /\ SaveProjectState(panels, dom')
  /\ threw' = FALSE
  /\ last' = [op |-> "adjustCharacterPanelLayout", id |-> "", arg |-> <<FALSE>>]
  /\ UNCHANGED <<panels, draggingPanel, dragOffset, container, isProjectLoaded, enabledSections,
                 currentSection, setupSections, sectionPanelSelections, dialogs, saveTimers,
                 charRefs, adjustTimers, resizeTimer, staleTimers>>

\* window.onSwitchCharacterView
SwitchCharacterView ==
  \E view \in {"list", "card", "importance"} :
    /\ ListViewShown
    /\ view # currentView
    /\ currentView' = view
    /\ viewInstance' = NewView(characterViewState)
    /\ threw' = FALSE
    /\ last' = [op |-> "switchCharacterView", id |-> "", arg |-> <<>>]
    /\ UNCHANGED <<panels, dom, draggingPanel, dragOffset, container, sectionVars,
                   charRefs, adjustTimers, resizeTimer, staleTimers>>

\* the setTimeout(() => adjustCharacterPanelLayout(false), 0) of initializeCharacterViews
AdjustTimerFires ==
  /\ adjustTimers > 0
  /\ adjustTimers' = adjustTimers - 1
  /\ dom' = adjustCharacterPanelLayout(dom, ContainerSize, currentView, FALSE)
  /\ threw' = FALSE
  /\ last' = [op |-> "adjustCharacterPanelLayout", id |-> "", arg |-> <<FALSE>>]
  /\ UNCHANGED <<panels, draggingPanel, dragOffset, container, sectionVars,
                 currentView, charRefs, resizeTimer, staleTimers, viewInstance>>

\* the delay of the resize debounce
DebounceMs == 150
\* the step in which time advances
TickMs == 50
\* the most timers of removed resize listeners pending at once
MaxStale == 1

\* a resize event: the window takes a new size, and the debounced listener
\* (once registered) restarts its 150 ms timer
WindowResize(sizes) ==
  \E size \in sizes :
    /\ size # container
    /\ container' = size
    /\ resizeTimer' = IF charRefs.list # NoPanel THEN DebounceMs ELSE resizeTimer
    /\ threw' = FALSE
    /\ last' = [op |-> "resize", id |-> "", arg |-> <<resizeTimer>>]
    /\ UNCHANGED <<panels, dom, draggingPanel, dragOffset, sectionVars,
                   currentView, charRefs, adjustTimers, staleTimers, viewInstance>>

\* TickMs pass with no event, and every pending debounce timer has more than
\* that left
TimePasses ==
  /\ resizeTimer > 0 \/ staleTimers # <<>>
  /\ resizeTimer = 0 \/ resizeTimer > TickMs
  /\ \A i \in DOMAIN staleTimers : staleTimers[i] > TickMs
  /\ resizeTimer' = IF resizeTimer > 0 THEN resizeTimer - TickMs ELSE 0
  /\ staleTimers' = [i \in DOMAIN staleTimers |-> staleTimers[i] - TickMs]
  /\ UNCHANGED <<panelVars, sectionVars, currentView, charRefs, adjustTimers, viewInstance>>

\* the body of window.onWindowResize, run by a debounce timer
onWindowResize ==
  LET editorVisible == charRefs.editor # NoPanel /\ dom[charRefs.editor].display # "none" IN
  /\ dom' = adjustCharacterPanelLayout(dom, ContainerSize, currentView, editorVisible)
  /\ last' = [op |-> "adjustCharacterPanelLayout", id |-> "onWindowResize", arg |-> <<editorVisible>>]
  /\ threw' = FALSE
  /\ UNCHANGED <<panels, draggingPanel, dragOffset, container, sectionVars,
                 currentView, charRefs, adjustTimers, viewInstance>>

\* the registered listener's debounce timer runs out
ResizeTimerFires ==
  /\ resizeTimer > 0
  /\ resizeTimer <= TickMs
  /\ resizeTimer' = 0
  /\ onWindowResize
  /\ UNCHANGED staleTimers

\* the debounce timer of a removed listener runs out: removeEventListener
\* does not clear the timer its closure has set
StaleTimerFires ==
  \E i \in DOMAIN staleTimers :
    /\ staleTimers[i] <= TickMs
    /\ staleTimers' = SubSeq(staleTimers, 1, i - 1) \o SubSeq(staleTimers, i + 1, Len(staleTimers))
    /\ onWindowResize
    /\ UNCHANGED resizeTimer

\* initializeCharacterViews(): what it leaves of the elements and the view state
\* (D: the elements after the section's panels were created)
CharacterViewsAfterInit(D) ==
  LET listPanel   == GetElementById(D, "character-list")
      editorPanel == GetElementById(D, "character-editor")
  IN IF listPanel = NoPanel \/ editorPanel = NoPanel
       THEN [dom |-> D, currentView |-> currentView, charRefs |-> charRefs, timers |-> adjustTimers,
             resizeTimer |-> resizeTimer, staleTimers |-> staleTimers, view |-> viewInstance]
       ELSE [dom         |-> [D EXCEPT ![listPanel].header = FALSE, ![editorPanel].header = FALSE],
             currentView |-> "list",
             charRefs    |-> [list |-> listPanel, editor |-> editorPanel],
             timers      |-> adjustTimers + 1,
             \* loadCharacterListView constructs the list view
             view        |-> NewView(characterViewState),
             \* a new debounce closure replaces the listener; the timer of
             \* the old closure stays pending
             resizeTimer |-> 0,
             staleTimers |-> IF resizeTimer > 0 THEN Append(staleTimers, resizeTimer)
                                                ELSE staleTimers]

----------------------------------------------------------------------------
(* SpecLayout: the character section is open with both panels, in a container
   of any width up to MaxWidth; characters are selected and updated, views are
   switched, the window is resized *)

MaxWidth == 1600

LayoutHeight == 600

\* the layout container of the App's window
AppContainerSize == [width |-> 1200, height |-> LayoutHeight]

ResizeSizes == { [width |-> 1200, height |-> 600] }

InitLayout ==
  /\ container \in {[width |-> w, height |-> LayoutHeight] : w \in 0..MaxWidth}
  /\ LET r == createPanels(<<>>, <<>>, layouts["characters"], "characters")
         c == [list |-> GetElementById(r.dom, "character-list"),
               editor |-> GetElementById(r.dom, "character-editor")]
     IN /\ panels = r.panels
        /\ dom = [r.dom EXCEPT ![c.list].header = FALSE, ![c.editor].header = FALSE]
        /\ charRefs = c
  /\ draggingPanel = NoPanel
  /\ dragOffset = [x |-> 0, y |-> 0]
  /\ threw = FALSE
  /\ last = [op |-> "loadSection", id |-> "characters", arg |-> <<>>]
  /\ isProjectLoaded = TRUE
  /\ enabledSections = <<"characters">>
  /\ currentSection = "characters"
  /\ savedLayouts = [s \in Sections |-> IF s = "characters" THEN layouts[s] ELSE <<>>]
  /\ setupSections = [s \in Sections |-> s = "characters"]
  /\ sectionPanelSelections =
       [s \in Sections |-> IF s = "characters" THEN IdsOfLayout(layouts[s]) ELSE <<>>]
  /\ dialogs = <<>>
  /\ saveTimers = 0
  /\ sent = NoState
  /\ currentView = "list"
  /\ adjustTimers = 1
  /\ resizeTimer = 0
  /\ staleTimers = <<>>
  /\ viewInstance = NewView(DefaultViewState)
  /\ CharsInit
  /\ MainAfterStartup(NoState)

LayoutNext ==
  \/ CharacterSelected /\ UNCHANGED <<mainVars, charVars>>
  \/ CharacterUpdated /\ UNCHANGED <<mainVars, charVars>>
  \/ SwitchCharacterView /\ UNCHANGED <<mainVars, charVars>>
  \/ AdjustTimerFires /\ UNCHANGED <<mainVars, charVars>>
  \/ WindowResize(ResizeSizes) /\ UNCHANGED <<mainVars, charVars>>
  \/ TimePasses /\ UNCHANGED <<mainVars, charVars>>
  \/ ResizeTimerFires /\ UNCHANGED <<mainVars, charVars>>

SpecLayout == InitLayout /\ [][LayoutNext]_vars

----------------------------------------------------------------------------
(* Spec: the App. A project is opened from the home screen, sections are
   entered from the navigation bar, setup dialogs are confirmed (each one a
   loadSection suspended at its await), panels are dragged and closed, the
   delayed saves and layout adjustments fire *)

\* most setup dialogs on screen at once
MaxDialogs == 1
\* most pending timers of one kind
MaxTimers == 1
\* most panel elements alive at once in the App
MaxAppEls == 4

\* where the pointer goes while panels of the App are dragged
AppPointers ==
  { [clientX |-> -30, clientY |-> -30],
    [clientX |-> 300, clientY |-> 300] }

\* most document-level mouseup listeners registered (one per createPanel call)
MaxListeners == 3

\* the sections of the projects that can be opened, in navigation order
EnabledChoices == { <<"plotting", "characters">> }

\* a layout state file recording a section as set up, with a selection (one of
\* its ids no longer in the template) but no saved layout
FallbackState ==
  [panelLayouts           |-> [s \in Sections |-> <<>>],
   setupSections          |-> [s \in Sections |-> s = "plotting"],
   sectionPanelSelections |->
     [s \in Sections |-> IF s = "plotting" THEN <<"story-elements", "outline">> ELSE <<>>]]

\* a layout state file holding a saved layout that differs from the template
\* in geometry and in ids, for a section not recorded as set up
SavedState ==
  [panelLayouts           |->
     [s \in Sections |->
        IF s = "plotting"
          THEN << [id |-> "plot-board", title |-> "Plot Board", x |-> 40, y |-> 20, width |-> 700, height |-> 500],
                  [id |-> "timeline", title |-> "Timeline", x |-> 750, y |-> 0, width |-> 300, height |-> 500] >>
          ELSE <<>>],
   setupSections          |-> [s \in Sections |-> FALSE],
   sectionPanelSelections |-> [s \in Sections |-> <<>>]]

\* what getLayoutState can deliver at startup
LoadedStates == { NoState, <<FallbackState>>, <<SavedState>> }

\* a dialog that resolves with the whole list whatever was ticked
selectedConfigsAll(availablePanels, selectedPanels) == availablePanels

\* SetupDialog's Continue: availablePanels.filter(selectedPanels.includes(id))
selectedConfigs(availablePanels, selectedPanels) ==
  SelectSeq(availablePanels, LAMBDA p : p.id \in selectedPanels)

\* a reconciliation that takes the whole template
fallbackConfigsAll(template, selectedIds) == template

\* the reconciliation fallback: layout.panels.filter(selectedIds.includes(id))
fallbackConfigs(template, selectedIds) ==
  SelectSeq(template, LAMBDA p : p.id \in SeqToSet(selectedIds))

\* a load that keeps the saved ids but takes the template's geometry for them
savedConfigsTemplated(SL, s) ==
  [i \in DOMAIN SL[s] |->
     IF \E j \in DOMAIN layouts[s] : layouts[s][j].id = SL[s][i].id
       THEN layouts[s][CHOOSE j \in DOMAIN layouts[s] : layouts[s][j].id = SL[s][i].id]
       ELSE SL[s][i]]

\* panelConfigs = this.savedLayouts[sectionName]
savedConfigs(SL, s) == SL[s]

\* the end of loadSection: the panels are created in the section's container,
\* a save is scheduled when there are any, the character views are initialized
CreateSectionPanels(s, P0, D0, cfgs) ==
  LET r  == createPanels(P0, D0, cfgs, s)
      cv == IF s = "characters"
              THEN CharacterViewsAfterInit(r.dom)
              ELSE [dom |-> r.dom, currentView |-> currentView,
                    charRefs |-> charRefs, timers |-> adjustTimers,
                    resizeTimer |-> resizeTimer, staleTimers |-> staleTimers,
                    view |-> viewInstance]
  IN /\ panels' = r.panels
     /\ dom' = Collect(cv.dom, {draggingPanel, cv.charRefs.list, cv.charRefs.editor})
     /\ currentView' = cv.currentView
     /\ viewInstance' = cv.view
     /\ charRefs' = cv.charRefs
     /\ adjustTimers' = cv.timers
     /\ resizeTimer' = cv.resizeTimer
     /\ staleTimers' = cv.staleTimers
     /\ Len(staleTimers') <= MaxStale
     /\ saveTimers' = IF cfgs # <<>> THEN saveTimers + 1 ELSE saveTimers
     /\ Cardinality(DOMAIN dom') <= MaxAppEls
     /\ adjustTimers' <= MaxTimers
     /\ saveTimers' <= MaxTimers

\* loadSection(s) up to its end or to its await
loadSectionWithin(s, limit) ==
  LET c == clearAllPanels(panels, dom) IN
  IF savedLayouts[s] # <<>>
    THEN /\ setupSections' = [setupSections EXCEPT ![s] = TRUE]
         /\ CreateSectionPanels(s, c.panels, c.dom, savedConfigs(savedLayouts, s))
         /\ last' = [op |-> "loadSection", id |-> s, arg |-> <<"saved">>]
         /\ UNCHANGED dialogs
  ELSE IF ~setupSections[s]
    THEN /\ Len(dialogs) < limit
         /\ dialogs' = Append(dialogs, s)
         /\ panels' = c.panels
         /\ dom' = Collect(c.dom, {draggingPanel, charRefs.list, charRefs.editor})
         /\ last' = [op |-> "loadSection", id |-> s, arg |-> <<"dialog">>]
         /\ UNCHANGED <<setupSections, saveTimers, currentView, charRefs, adjustTimers,
                        resizeTimer, staleTimers, viewInstance>>
  ELSE /\ CreateSectionPanels(s, c.panels, c.dom,
                              fallbackConfigs(layouts[s], sectionPanelSelections[s]))
       /\ last' = [op |-> "loadSection", id |-> s, arg |-> <<"fallback">>]
       /\ UNCHANGED <<setupSections, dialogs>>

\* loadSection(s), with at most MaxDialogs setup dialogs open at a time
loadSection(s) == loadSectionWithin(s, MaxDialogs)

\* a project is created or opened on the home screen: loadProject()
LoadProject ==
  \E es \in EnabledChoices :
    /\ ~isProjectLoaded
    /\ isProjectLoaded' = TRUE
    /\ enabledSections' = es
    /\ currentSection' = es[1]
    /\ loadSection(es[1])
    /\ threw' = FALSE
    /\ UNCHANGED <<draggingPanel, dragOffset, container, savedLayouts,
                   sectionPanelSelections, sent>>

\* a navigation button: switchSection(s)
SwitchSectionWithin(limit) ==
  \E i \in DOMAIN enabledSections :
    /\ isProjectLoaded
    /\ currentSection' = enabledSections[i]
    /\ loadSectionWithin(enabledSections[i], limit)
    /\ threw' = FALSE
    /\ UNCHANGED <<draggingPanel, dragOffset, container, isProjectLoaded, enabledSections,
                   savedLayouts, sectionPanelSelections, sent>>

SwitchSection == SwitchSectionWithin(MaxDialogs)

\* Continue in a setup dialog: the suspended loadSection resumes
ConfirmDialog ==
  \E i \in DOMAIN dialogs :
    \E ticked \in SUBSET SeqToSet(IdsOfLayout(layouts[dialogs[i]])) :
      LET s            == dialogs[i]
          panelConfigs == selectedConfigs(layouts[s], ticked)
      IN /\ dialogs' = SubSeq(dialogs, 1, i - 1) \o SubSeq(dialogs, i + 1, Len(dialogs))
         /\ setupSections' = [setupSections EXCEPT ![s] = TRUE]
         /\ sectionPanelSelections' =
              [sectionPanelSelections EXCEPT ![s] = IdsOfLayout(panelConfigs)]
         /\ savedLayouts' = [savedLayouts EXCEPT ![s] = panelConfigs]
         /\ CreateSectionPanels(s, panels, dom, panelConfigs)
         /\ threw' = FALSE
         /\ last' = [op |-> "setupConfirmed", id |-> s, arg |-> <<ticked>>]
         /\ UNCHANGED <<draggingPanel, dragOffset, container, isProjectLoaded,
                        enabledSections, currentSection, sent>>

\* the setTimeout(() => this.saveProjectState(), 50) of loadSection
SaveTimerFires ==
  /\ saveTimers > 0
  /\ saveTimers' = saveTimers - 1
  /\ SaveProjectState(panels, LaidOut(dom, AppShown))
  /\ threw' = FALSE
  /\ last' = [op |-> "saveProjectState", id |-> "", arg |-> <<>>]
  /\ UNCHANGED <<panels, dom, draggingPanel, dragOffset, container, isProjectLoaded,
                 enabledSections, currentSection, setupSections, sectionPanelSelections,
                 dialogs, viewVars>>

\* a goHome that forgets which sections were set up
GoHomeForgetting ==
  /\ isProjectLoaded
  /\ isProjectLoaded' = FALSE
  /\ SaveProjectState(panels, dom)
  /\ setupSections' = [s \in Sections |-> FALSE]
  /\ threw' = FALSE
  /\ last' = [op |-> "goHome", id |-> "", arg |-> <<>>]
  /\ UNCHANGED <<panels, dom, draggingPanel, dragOffset, container, enabledSections,
                 currentSection, sectionPanelSelections, dialogs, saveTimers, viewVars>>

\* the Home button: goHome()
GoHome ==
  /\ isProjectLoaded
  /\ isProjectLoaded' = FALSE
  /\ SaveProjectState(panels, dom)
  /\ threw' = FALSE
  /\ last' = [op |-> "goHome", id |-> "", arg |-> <<>>]
  /\ UNCHANGED <<panels, dom, draggingPanel, dragOffset, container, enabledSections,
                 currentSection, setupSections, sectionPanelSelections, dialogs,
                 saveTimers, viewVars>>

\* the close button in a panel's header
CloseButton ==
  \E h \in DOMAIN dom :
    /\ AppShown
    /\ CanGrab(dom, h)
    /\ LET r == removePanel(panels, dom, dom[h].id) IN
       /\ panels' = r.panels
       /\ dom' = Collect(r.dom, {draggingPanel, charRefs.list, charRefs.editor})
       /\ threw' = r.threw
    /\ last' = [op |-> "removePanel", id |-> dom[h].id, arg |-> <<>>]
    /\ UNCHANGED <<draggingPanel, dragOffset, container, appVars>>

AppMouseDown == AppShown /\ MouseDown /\ UNCHANGED appVars

\* mousemove: drag() measures the panel and the container as they are laid out
AppMouseMove ==
  \E ev \in AppPointers :
    /\ draggingPanel # NoPanel
    /\ LET r == drag(LaidOut(dom, AppShown), draggingPanel, dragOffset, ContainerSize, ev)
       IN /\ dom' = IF r.threw THEN dom
                    ELSE [dom EXCEPT ![draggingPanel].left = r.dom[draggingPanel].left,
                                     ![draggingPanel].top = r.dom[draggingPanel].top]
          /\ threw' = r.threw
    /\ last' = [op |-> "drag", id |-> "", arg |-> <<>>]
    /\ UNCHANGED <<panels, draggingPanel, dragOffset, container, appVars>>

\* a mouseup event: each of the n document listeners registered so far calls
\* stopDrag(onStateChange) in turn; calls counts the callbacks made
RECURSIVE mouseupDispatch(_, _, _, _)
mouseupDispatch(D, dp, n, calls) ==
  IF n = 0 THEN [dom |-> D, draggingPanel |-> dp, calls |-> calls]
  ELSE LET r == stopDrag(D, dp)
       IN mouseupDispatch(r.dom, r.draggingPanel, n - 1, IF r.called THEN calls + 1 ELSE calls)

\* mouseup anywhere in the document, a drag being active or not; the callback
\* of every listener is saveProjectState
AppMouseUp ==
  \E n \in 1..MaxListeners :
    /\ LET r == mouseupDispatch(dom, draggingPanel, n, 0) IN
       /\ draggingPanel' = r.draggingPanel
       /\ dom' = Collect(r.dom, {r.draggingPanel, charRefs.list, charRefs.editor})
       /\ IF r.calls > 0 THEN SaveProjectState(panels, LaidOut(r.dom, AppShown))
                         ELSE UNCHANGED <<savedLayouts, sent>>
       /\ last' = [op |-> "mouseup", id |-> "", arg |-> <<r.calls, n>>]
    /\ threw' = FALSE
    /\ UNCHANGED <<panels, dragOffset, container, isProjectLoaded, enabledSections,
                   currentSection, setupSections, sectionPanelSelections, dialogs,
                   saveTimers, viewVars>>

Init ==
  /\ PanelsInit
  /\ container = AppContainerSize
  /\ last = [op |-> "new", id |-> "", arg |-> <<>>]
  /\ \E state \in LoadedStates : AppInitWith(state)

Next ==
  \/ LoadProject /\ UNCHANGED <<mainVars, charVars>>
  \/ SwitchSection /\ UNCHANGED <<mainVars, charVars>>
  \/ ConfirmDialog /\ UNCHANGED <<mainVars, charVars>>
  \/ SaveTimerFires /\ UNCHANGED <<mainVars, charVars>>
  \/ GoHome /\ UNCHANGED <<mainVars, charVars>>
  \/ CloseButton /\ UNCHANGED <<mainVars, charVars>>
  \/ AdjustTimerFires /\ UNCHANGED <<mainVars, charVars>>

Spec == Init /\ [][Next]_vars

\* the App started without a layout state file
InitFresh ==
  /\ PanelsInit
  /\ container = AppContainerSize
  /\ last = [op |-> "new", id |-> "", arg |-> <<>>]
  /\ AppInitWith(NoState)

SpecFresh == InitFresh /\ [][Next]_vars

----------------------------------------------------------------------------
(* SpecAppDrag: a project is open on a section already set up; its panels are
   dragged and closed, the section is entered again, saves are made *)

InitAppDrag ==
  /\ LET r == createPanels(<<>>, <<>>, layouts["plotting"], "plotting") IN
     /\ panels = r.panels
     /\ dom = r.dom
  /\ draggingPanel = NoPanel
  /\ dragOffset = [x |-> 0, y |-> 0]
  /\ threw = FALSE
  /\ container = AppContainerSize
  /\ last = [op |-> "loadSection", id |-> "plotting", arg |-> <<"saved">>]
  /\ isProjectLoaded = TRUE
  /\ enabledSections = <<"plotting">>
  /\ currentSection = "plotting"
  /\ savedLayouts = [s \in Sections |-> IF s = "plotting" THEN layouts[s] ELSE <<>>]
  /\ setupSections = [s \in Sections |-> s = "plotting"]
  /\ sectionPanelSelections =
       [s \in Sections |-> IF s = "plotting" THEN IdsOfLayout(layouts[s]) ELSE <<>>]
  /\ dialogs = <<>>
  /\ saveTimers = 1
  /\ sent = NoState
  /\ currentView = ""
  /\ charRefs = NoRefs
  /\ adjustTimers = 0
  /\ resizeTimer = 0
  /\ staleTimers = <<>>
  /\ viewInstance = NoView
  /\ CharsInit
  /\ MainAfterStartup(NoState)

AppDragNext ==
  \/ AppMouseDown /\ UNCHANGED <<mainVars, charVars>>
  \/ AppMouseMove /\ UNCHANGED <<mainVars, charVars>>
  \/ AppMouseUp /\ UNCHANGED <<mainVars, charVars>>
  \/ CloseButton /\ UNCHANGED <<mainVars, charVars>>
  \/ SwitchSection /\ UNCHANGED <<mainVars, charVars>>
  \/ SaveTimerFires /\ UNCHANGED <<mainVars, charVars>>

SpecAppDrag == InitAppDrag /\ [][AppDragNext]_vars

----------------------------------------------------------------------------
(* SpecResize *)

\* the sizes a window takes while it is being resized
BurstSizes == { [width |-> w, height |-> LayoutHeight] : w \in {600, 900, 1200} }

InitResize == InitLayout /\ container = AppContainerSize

ResizeNext ==
  \/ AdjustTimerFires /\ UNCHANGED <<mainVars, charVars>>
  \/ WindowResize(BurstSizes) /\ UNCHANGED <<mainVars, charVars>>
  \/ TimePasses /\ UNCHANGED <<mainVars, charVars>>
  \/ ResizeTimerFires /\ UNCHANGED <<mainVars, charVars>>
  \/ StaleTimerFires /\ UNCHANGED <<mainVars, charVars>>
  \/ SwitchSection /\ UNCHANGED <<mainVars, charVars>>
  \/ SaveTimerFires /\ UNCHANGED <<mainVars, charVars>>

\* SpecResize: the character section is open, the window is resized in
\* bursts, and the section's navigation button is clicked
SpecResize == InitResize /\ [][ResizeNext]_vars

----------------------------------------------------------------------------
(* SpecPersist: the main process starts and loads the state file, the window's
   renderer asks for the state and waits, a project is opened, its saves go
   through the main process to the file, the application is quit and started
   again *)

\* the most IPC messages in flight in one direction
MaxMsgs == 2

\* what the main process and the renderer leave alone of each other
rendererVars == <<panelVars, sectionVars, viewVars>>

\* app.whenReady().then(...): the state file is loaded, the window is created
MainStart ==
  \E readOk \in BOOLEAN :
    LET r == loadLayoutState(stateFile, readOk) IN
    /\ ~mainRunning
    /\ mainRunning' = TRUE
    /\ currentLayoutState' = r.value
    /\ mainThrew' = r.threw
    /\ rendererPhase' = "loading"
    /\ last' = [op |-> "loadLayoutState", id |-> stateFile.kind, arg |-> <<readOk>>]
    /\ UNCHANGED <<panels, dom, draggingPanel, dragOffset, container, threw, sectionVars,
                   viewVars, stateFile, toMain, toRenderer, requests, isReady, homeRendered>>

\* an init that renders the home screen before the reply has come
AppInitEager ==
  /\ rendererPhase = "loading"
  /\ rendererPhase' = "awaiting"
  /\ toMain' = Append(toMain, [type |-> "get-layout-state", state |-> NoState])
  /\ requests' = requests + 1
  /\ homeRendered' = TRUE
  /\ last' = [op |-> "init", id |-> "", arg |-> <<>>]
  /\ UNCHANGED <<panels, dom, draggingPanel, dragOffset, container, threw, sectionVars,
                 viewVars, mainRunning, stateFile, currentLayoutState, toRenderer,
                 isReady, mainThrew>>

\* DOMContentLoaded: new App(), then init() up to its await: loadAppState
\* calls electronAPI.getLayoutState, which registers the once-listener and
\* sends 'get-layout-state'
AppInitStart ==
  /\ rendererPhase = "loading"
  /\ rendererPhase' = "awaiting"
  /\ toMain' = Append(toMain, [type |-> "get-layout-state", state |-> NoState])
  /\ requests' = requests + 1
  /\ last' = [op |-> "init", id |-> "", arg |-> <<>>]
  /\ UNCHANGED <<panels, dom, draggingPanel, dragOffset, container, threw, sectionVars,
                 viewVars, mainRunning, stateFile, currentLayoutState, toRenderer,
                 isReady, homeRendered, mainThrew>>

\* ipcMain.on('get-layout-state'): the reply carries currentLayoutState
MainHandlesGet ==
  /\ toMain # <<>>
  /\ Head(toMain).type = "get-layout-state"
  /\ toMain' = Tail(toMain)
  /\ toRenderer' = Append(toRenderer, currentLayoutState)
  /\ mainThrew' = FALSE
  /\ UNCHANGED <<rendererVars, mainRunning, stateFile, currentLayoutState, rendererPhase,
                 requests, isReady, homeRendered>>

\* ipcMain.on('save-layout-state'): currentLayoutState is set, then the file
\* is written
MainHandlesSave ==
  \E outcome \in WriteOutcomes :
    LET state == Head(toMain).state
        r     == saveLayoutState(stateFile, state, outcome)
    IN /\ toMain # <<>>
       /\ Head(toMain).type = "save-layout-state"
       /\ toMain' = Tail(toMain)
       /\ currentLayoutState' = state
       /\ stateFile' = r.file
       /\ mainThrew' = r.threw
       /\ last' = [op |-> "save-layout-state", id |-> outcome, arg |-> state]
       /\ UNCHANGED <<panels, dom, draggingPanel, dragOffset, container, threw, sectionVars,
                      viewVars, mainRunning, toRenderer, rendererPhase, requests, isReady,
                      homeRendered>>

\* the once-listener of getLayoutState receives the reply: the callback of
\* loadAppState applies the state and resolves, init goes on to
\* showHomeScreen() and sets isReady
LayoutStateReceived ==
  LET state == Head(toRenderer) IN
  /\ toRenderer # <<>>
  /\ rendererPhase = "awaiting"
  /\ toRenderer' = Tail(toRenderer)
  /\ savedLayouts' = IF state = NoState THEN savedLayouts ELSE state[1].panelLayouts
  /\ setupSections' = IF state = NoState THEN setupSections ELSE state[1].setupSections
  /\ sectionPanelSelections' =
       IF state = NoState THEN sectionPanelSelections ELSE state[1].sectionPanelSelections
  /\ homeRendered' = TRUE
  /\ isReady' = TRUE
  /\ rendererPhase' = "ready"
  /\ last' = [op |-> "loadAppState", id |-> "", arg |-> state]
  /\ UNCHANGED <<panels, dom, draggingPanel, dragOffset, container, threw, isProjectLoaded,
                 enabledSections, currentSection, dialogs, saveTimers, sent, viewVars,
                 mainRunning, stateFile, currentLayoutState, toMain, requests, mainThrew>>

\* a project is opened from the home screen
HomeLoadProject ==
  /\ homeRendered
  /\ LoadProject
  /\ UNCHANGED <<mainVars, charVars>>

\* the delayed saveProjectState: electronAPI.saveLayoutState sends the state
DelayedSave ==
  /\ SaveTimerFires
  /\ Len(toMain) < MaxMsgs
  /\ toMain' = IF currentSection = "" THEN toMain
               ELSE Append(toMain, [type |-> "save-layout-state", state |-> sent'])
  /\ UNCHANGED <<mainRunning, stateFile, currentLayoutState, toRenderer, rendererPhase,
                 requests, isReady, homeRendered, mainThrew>>

\* a handler of the closing application that saves whether or not there is a state
saveOnCloseAlways(file, outcome) ==
  saveLayoutState(file, currentLayoutState, outcome).file

\* a save made while the application closes: only when there is a state
saveOnClose(file, outcome) ==
  IF currentLayoutState = NoState THEN file
  ELSE saveLayoutState(file, currentLayoutState, outcome).file

\* the window is closed and the application quits: the 'close',
\* 'window-all-closed' and 'before-quit' handlers save in turn, the processes
\* end
QuitApp ==
  \E o3 \in WriteOutcomes :
  \E file \in { saveOnClose(saveOnClose(stateFile, o1), o2) :
                   o1 \in WriteOutcomes, o2 \in WriteOutcomes } :
    /\ mainRunning
    /\ stateFile' = saveOnClose(file, o3)
    /\ mainRunning' = FALSE
    /\ currentLayoutState' = NoState
    /\ toMain' = <<>>
    /\ toRenderer' = <<>>
    /\ rendererPhase' = "none"
    /\ requests' = 0
    /\ isReady' = FALSE
    /\ homeRendered' = FALSE
    /\ mainThrew' = FALSE
    /\ panels' = <<>>
    /\ dom' = <<>>
    /\ draggingPanel' = NoPanel
    /\ dragOffset' = [x |-> 0, y |-> 0]
    /\ threw' = FALSE
    /\ last' = [op |-> "quit", id |-> o3, arg |-> <<>>]
    /\ isProjectLoaded' = FALSE
    /\ enabledSections' = <<>>
    /\ currentSection' = ""
    /\ savedLayouts' = [s \in Sections |-> <<>>]
    /\ setupSections' = [s \in Sections |-> FALSE]
    /\ sectionPanelSelections' = [s \in Sections |-> <<>>]
    /\ dialogs' = <<>>
    /\ saveTimers' = 0
    /\ sent' = NoState
    /\ currentView' = ""
    /\ viewInstance' = NoView
    /\ charRefs' = NoRefs
    /\ adjustTimers' = 0
    /\ resizeTimer' = 0
    /\ staleTimers' = <<>>
    /\ UNCHANGED container

\* the state files found at the first start
FirstFiles ==
  { FileAbsent, FileGarbage, stringify(NoState), stringify(<<SavedState>>),
    stringify(<<FallbackState>>) }

InitPersist ==
  /\ PanelsInit
  /\ container = AppContainerSize
  /\ last = [op |-> "new", id |-> "", arg |-> <<>>]
  /\ AppStateWith(NoState)
  /\ mainRunning = FALSE
  /\ stateFile \in FirstFiles
  /\ currentLayoutState = NoState
  /\ toMain = <<>>
  /\ toRenderer = <<>>
  /\ rendererPhase = "none"
  /\ requests = 0
  /\ isReady = FALSE
  /\ homeRendered = FALSE
  /\ mainThrew = FALSE

PersistNext ==
  \/ MainStart /\ UNCHANGED charVars
  \/ AppInitStart /\ UNCHANGED charVars
  \/ MainHandlesGet /\ UNCHANGED charVars
  \/ MainHandlesSave /\ UNCHANGED charVars
  \/ LayoutStateReceived /\ UNCHANGED charVars
  \/ HomeLoadProject /\ UNCHANGED charVars
  \/ ConfirmDialog /\ UNCHANGED <<mainVars, charVars>>
  \/ DelayedSave /\ UNCHANGED charVars
  \/ QuitApp /\ UNCHANGED charVars

SpecPersist == InitPersist /\ [][PersistNext]_vars

----------------------------------------------------------------------------
(* SpecViews: the character section is open beside a second section; the
   sort and filter buttons of the character view are clicked, views are
   switched and refreshed, the section is left and entered again *)

\* the filter buttons that are clicked
ImportanceButtons == {"primary"}

GenderButtons == {"male"}

\* this.importanceFilter[opt.id] = !this.importanceFilter[opt.id]
Toggle(filter, id) == IF id \in filter THEN filter \ {id} ELSE filter \cup {id}

\* the filter bar of the view on screen can be clicked
FilterBarShown == ListViewShown /\ viewInstance # NoView

\* a click on a sort button of the filter bar
SortClicked ==
  \E opt \in {"name-asc", "name-desc"} :
    /\ FilterBarShown
    /\ viewInstance[1].sortBy # opt
    /\ viewInstance' = << [viewInstance[1] EXCEPT !.sortBy = opt] >>
    /\ characterViewState' = [characterViewState EXCEPT !.sortBy = opt]
    /\ last' = [op |-> "sort", id |-> opt, arg |-> <<>>]
    /\ threw' = FALSE
    /\ UNCHANGED <<panels, dom, draggingPanel, dragOffset, container, sectionVars, currentView,
                   charRefs, adjustTimers, resizeTimer, staleTimers, mainVars, characters,
                   customFlags>>

\* a click on an importance filter button
ImportanceToggled ==
  \E opt \in ImportanceButtons :
    LET filter == Toggle(viewInstance[1].importanceFilter, opt) IN
    /\ FilterBarShown
    /\ viewInstance' = << [viewInstance[1] EXCEPT !.importanceFilter = filter] >>
    /\ characterViewState' = [characterViewState EXCEPT !.importanceFilter = filter]
    /\ last' = [op |-> "importanceFilter", id |-> opt, arg |-> <<>>]
    /\ threw' = FALSE
    /\ UNCHANGED <<panels, dom, draggingPanel, dragOffset, container, sectionVars, currentView,
                   charRefs, adjustTimers, resizeTimer, staleTimers, mainVars, characters,
                   customFlags>>

\* a click on a gender filter button
GenderToggled ==
  \E opt \in GenderButtons :
    LET filter == Toggle(viewInstance[1].genderFilter, opt) IN
    /\ FilterBarShown
    /\ viewInstance' = << [viewInstance[1] EXCEPT !.genderFilter = filter] >>
    /\ characterViewState' = [characterViewState EXCEPT !.genderFilter = filter]
    /\ last' = [op |-> "genderFilter", id |-> opt, arg |-> <<>>]
    /\ threw' = FALSE
    /\ UNCHANGED <<panels, dom, draggingPanel, dragOffset, container, sectionVars, currentView,
                   charRefs, adjustTimers, resizeTimer, staleTimers, mainVars, characters,
                   customFlags>>

\* the character section open from its template, in a project that also has
\* the plotting section, set up earlier
InitViews ==
  /\ container = AppContainerSize
  /\ LET r == createPanels(<<>>, <<>>, layouts["characters"], "characters")
         c == [list |-> GetElementById(r.dom, "character-list"),
               editor |-> GetElementById(r.dom, "character-editor")]
     IN /\ panels = r.panels
        /\ dom = [r.dom EXCEPT ![c.list].header = FALSE, ![c.editor].header = FALSE]
        /\ charRefs = c
  /\ draggingPanel = NoPanel
  /\ dragOffset = [x |-> 0, y |-> 0]
  /\ threw = FALSE
  /\ last = [op |-> "loadSection", id |-> "characters", arg |-> <<>>]
  /\ isProjectLoaded = TRUE
  /\ enabledSections = <<"plotting", "characters">>
  /\ currentSection = "characters"
  /\ savedLayouts = [s \in Sections |-> IF s = "characters" THEN layouts[s] ELSE <<>>]
  /\ setupSections = [s \in Sections |-> s \in {"plotting", "characters"}]
  /\ sectionPanelSelections =
       [s \in Sections |-> IF s = "characters" THEN IdsOfLayout(layouts[s])
                           ELSE IF s = "plotting" THEN <<"plot-board">> ELSE <<>>]
  /\ dialogs = <<>>
  /\ saveTimers = 0
  /\ sent = NoState
  /\ currentView = "list"
  /\ adjustTimers = 1
  /\ resizeTimer = 0
  /\ staleTimers = <<>>
  /\ viewInstance = NewView(DefaultViewState)
  /\ CharsInit
  /\ MainAfterStartup(NoState)

ViewsNext ==
  \/ SortClicked
  \/ ImportanceToggled
  \/ GenderToggled
  \/ SwitchCharacterView /\ UNCHANGED <<mainVars, charVars>>
  \/ CharacterSelected /\ UNCHANGED <<mainVars, charVars>>
  \/ CharacterUpdated /\ UNCHANGED <<mainVars, charVars>>
  \/ SwitchSection /\ UNCHANGED <<mainVars, charVars>>
  \/ SaveTimerFires /\ UNCHANGED <<mainVars, charVars>>
  \/ AdjustTimerFires /\ UNCHANGED <<mainVars, charVars>>

SpecViews == InitViews /\ [][ViewsNext]_vars

----------------------------------------------------------------------------
(* SpecSetup: sections are entered again while their setup dialogs are still
   open, so that several suspended loadSection calls resume one after the
   other *)

\* most setup dialogs on screen at once in SpecSetup
MaxPending == 2

\* a project whose only section is plotting has just been opened for the first
\* time: the setup dialog of plotting is on screen
InitSetup ==
  /\ PanelsInit
  /\ container = AppContainerSize
  /\ last = [op |-> "loadSection", id |-> "plotting", arg |-> <<"dialog">>]
  /\ isProjectLoaded = TRUE
  /\ enabledSections = <<"plotting">>
  /\ currentSection = "plotting"
  /\ savedLayouts = [s \in Sections |-> <<>>]
  /\ setupSections = [s \in Sections |-> FALSE]
  /\ sectionPanelSelections = [s \in Sections |-> <<>>]
  /\ dialogs = <<"plotting">>
  /\ saveTimers = 0
  /\ sent = NoState
  /\ currentView = ""
  /\ charRefs = NoRefs
  /\ adjustTimers = 0
  /\ resizeTimer = 0
  /\ staleTimers = <<>>
  /\ viewInstance = NoView
  /\ CharsInit
  /\ MainAfterStartup(NoState)

SetupNext ==
  \/ SwitchSectionWithin(MaxPending) /\ UNCHANGED <<mainVars, charVars>>
  \/ ConfirmDialog /\ UNCHANGED <<mainVars, charVars>>
  \/ SaveTimerFires /\ UNCHANGED <<mainVars, charVars>>
  \/ CloseButton /\ UNCHANGED <<mainVars, charVars>>

SpecSetup == InitSetup /\ [][SetupNext]_vars

----------------------------------------------------------------------------
(* SpecChars: the CharacterManager. Characters are created, updated (by a
   caller of updateCharacter, or from the editor form), deleted, and loaded
   from saved character data *)

\* most characters at a time
MaxChars == 3

\* everything but the CharacterManager's state and the record of the last call
appStateVars ==
  <<panels, dom, draggingPanel, dragOffset, container, threw, sectionVars, viewVars, mainVars>>

\* CharacterManager.normalizeFlagId; "" stands for a falsy flag id
normalizeFlagId(flagId) ==
  IF flagId = "" THEN "secondary"
  ELSE CASE flagId = "Primary"   -> "primary"
         [] flagId = "primary"   -> "primary"
         [] flagId = "Secondary" -> "secondary"
         [] flagId = "secondary" -> "secondary"
         [] flagId = "Tertiary"  -> "tertiary"
         [] flagId = "tertiary"  -> "tertiary"
         [] OTHER                -> flagId

\* the ids of getPredefinedFlags()
getPredefinedFlags == <<"primary", "secondary", "tertiary">>

\* the ids of getAllFlags()
getAllFlags == getPredefinedFlags \o customFlags

getCharactersByFlag(flagId) == SelectSeq(characters, LAMBDA c : c.flagId = flagId)

CharIds == {characters[i].id : i \in DOMAIN characters}

\* the flag ids callers pass: absent, the predefined ids, and their capitalised
\* spellings
FlagInputs == {"", "primary", "secondary", "tertiary", "Primary", "Secondary", "Tertiary"}

\* the characters after updateCharacter(characterId, {flagId})
updateCharacter(characterId, flagId) ==
  [i \in DOMAIN characters |->
     IF characters[i].id = characterId /\ flagId # ""
       THEN [characters[i] EXCEPT !.flagId = flagId]
       ELSE characters[i]]

\* createCharacter(name, flagId)
CreateCharacter ==
  \E flagId \in FlagInputs :
    /\ Len(characters) < MaxChars
    /\ LET id == CHOOSE n \in 1..MaxChars : n \notin CharIds
       IN characters' = Append(characters, [id |-> id, flagId |-> normalizeFlagId(flagId)])
    /\ last' = [op |-> "createCharacter", id |-> "", arg |-> <<flagId>>]
    /\ UNCHANGED <<characterViewState, customFlags>>

\* updateCharacter(characterId, updates), called with any character id
UpdateCharacter ==
  \E characterId \in 1..MaxChars, flagId \in FlagInputs :
    /\ characters' = updateCharacter(characterId, flagId)
    /\ last' = [op |-> "updateCharacter", id |-> "", arg |-> <<characterId, flagId>>]
    /\ UNCHANGED <<characterViewState, customFlags>>

\* CharacterEditorPanel.saveCharacter: the form's select holds one of the flags
SaveCharacter ==
  \E characterId \in CharIds, i \in DOMAIN getAllFlags :
    /\ LET value == getAllFlags[i]
       IN characters' = updateCharacter(characterId, IF value = "" THEN "Primary" ELSE value)
    /\ last' = [op |-> "saveCharacter", id |-> "", arg |-> <<characterId, getAllFlags[i]>>]
    /\ UNCHANGED <<characterViewState, customFlags>>

DeleteCharacter ==
  \E characterId \in CharIds :
    /\ characters' = SelectSeq(characters, LAMBDA c : c.id # characterId)
    /\ last' = [op |-> "deleteCharacter", id |-> "", arg |-> <<characterId>>]
    /\ UNCHANGED <<characterViewState, customFlags>>

\* saved character data: current ids, legacy ids, a missing flag id
SavedCharacterData ==
  { << [id |-> 1, flagId |-> f], [id |-> 2, flagId |-> g] >> :
      f \in {"Primary", "tertiary"}, g \in {"", "Secondary"} }

\* loadCharacterData(data)
LoadCharacterData ==
  \E data \in SavedCharacterData :
    /\ characters' = [i \in DOMAIN data |->
                        [data[i] EXCEPT !.flagId = normalizeFlagId(data[i].flagId)]]
    /\ last' = [op |-> "loadCharacterData", id |-> "", arg |-> <<>>]
    /\ UNCHANGED <<characterViewState, customFlags>>

CharsNext ==
  \/ CreateCharacter /\ UNCHANGED appStateVars
  \/ UpdateCharacter /\ UNCHANGED appStateVars
  \/ SaveCharacter /\ UNCHANGED appStateVars
  \/ DeleteCharacter /\ UNCHANGED appStateVars
  \/ LoadCharacterData /\ UNCHANGED appStateVars

SpecChars == InitFresh /\ [][CharsNext]_vars

----------------------------------------------------------------------------
(* Claims about the adaptive split layout *)

\* the visible-editor branch of adjustCharacterPanelLayout has just run
SplitApplied ==
  /\ last.op = "adjustCharacterPanelLayout"
  /\ last.arg = <<TRUE>>
  /\ GetElementById(dom, "character-list") # NoPanel
  /\ GetElementById(dom, "character-editor") # NoPanel

ListWidthNow == ParseInt(dom[GetElementById(dom, "character-list")].width)
EditorWidthNow == ParseInt(dom[GetElementById(dom, "character-editor")].width)

SplitAt1200List == SplitApplied /\ container.width = 1200 /\ currentView = "list"

\* C4 as claimed: for W = 1200, view mode list and the editor visible the final
\* (listWidth, editorWidth) is (350, 840)
C4_Original ==
  SplitAt1200List => (ListWidthNow = 350 /\ EditorWidthNow = 840)

\* C4 amended: for W = 1200, view mode list and the editor visible the final
\* (listWidth, editorWidth) is (360, 830)
C4_Split1200 ==
  SplitAt1200List => (ListWidthNow = 360 /\ EditorWidthNow = 830)

C4_Witness == SplitAt1200List /\ ListWidthNow = 360

\* C5: whenever the editor is visible, for every container width and view mode
\* the editor width computed is at least 320; for W = 600 in the importance
\* view it lies in [320, 390]
C5_EditorMinWidth ==
  SplitApplied =>
    /\ EditorWidthNow >= MinEditorPx
    /\ (container.width = 600 /\ currentView = "importance") =>
         (EditorWidthNow >= 320 /\ EditorWidthNow <= 390)

\* the split has run at W = 600 in the importance view, and at a width so small
\* that the 320 floor decides the editor width
C5_Witness ==
  /\ SplitApplied
  /\ container.width = 600
  /\ currentView = "importance"
  /\ EditorWidthNow > 320

C5_WitnessFloor ==
  /\ SplitApplied
  /\ FloorPct(container.width, currentView) < MinEditorPx
  /\ EditorWidthNow = MinEditorPx

\* a debounce timer of a resize listener runs out and the layout is recomputed
RelayoutByResize ==
  \/ resizeTimer > 0 /\ resizeTimer' = 0 /\ staleTimers' = staleTimers
  \/ Len(staleTimers') < Len(staleTimers)

\* C18: the resize re-layout is debounced: the layout is recomputed by a
\* resize listener's timer only once 150 ms have passed with no further resize
\* event, that is when the timer every resize event restarts is not pending
C18_Original ==
  [][RelayoutByResize => resizeTimer' = 0]_vars

----------------------------------------------------------------------------
(* Claims about section setup and reconciliation *)

\* where an id stands in a section's template (0 when it is not in it)
TemplatePos(s, id) ==
  IF \E i \in DOMAIN layouts[s] : layouts[s][i].id = id
    THEN CHOOSE i \in DOMAIN layouts[s] : layouts[s][i].id = id
    ELSE 0

\* the tracked panels are exactly those of the configurations cfgs, in their
\* order, each a rendered element of section s with the configuration's geometry
CreatedFrom(P, D, cfgs, s) ==
  /\ Len(P) = Len(cfgs)
  /\ \A i \in DOMAIN P :
       LET el == D[P[i].element] IN
       /\ P[i].id = cfgs[i].id
       /\ el.id = cfgs[i].id
       /\ el.parent = s
       /\ el.left = Px(cfgs[i].x)
       /\ el.top = Px(cfgs[i].y)
       /\ el.width = Px(cfgs[i].width)
       /\ el.height = Px(cfgs[i].height)

\* C6: when the setup dialog of a section is confirmed with a subset S of the
\* template's panels, the section's saved layout holds exactly the ids in S, in
\* template order; and every entry to a section whose saved layout is present
\* creates exactly the panels of that saved layout, whatever the template holds
C6_SetupLayout ==
  [][/\ last'.op = "setupConfirmed" =>
          LET s   == last'.id
              ids == IdsOfLayout(savedLayouts'[s])
          IN /\ SeqToSet(ids) = last'.arg[1]
             /\ \A i, j \in DOMAIN ids :
                  i < j => (0 < TemplatePos(s, ids[i]) /\ TemplatePos(s, ids[i]) < TemplatePos(s, ids[j]))
     /\ (last'.op = "loadSection" /\ savedLayouts[last'.id] # <<>>) =>
          /\ CreatedFrom(panels', dom', savedLayouts[last'.id], last'.id)
          /\ dialogs' = dialogs
    ]_vars

\* a section set up in this run with a proper, non-empty subset of its template
\* has been entered again, and its panels are those of the subset
C6_Witness ==
  /\ last.op = "loadSection"
  /\ last.arg = <<"saved">>
  /\ sectionPanelSelections[last.id] # <<>>
  /\ Len(sectionPanelSelections[last.id]) < Len(layouts[last.id])
  /\ TrackedIds(panels) = SeqToSet(sectionPanelSelections[last.id])
  /\ TrackedIds(panels) \subseteq SeqToSet(IdsOfLayout(layouts[last.id]))

\* C7: entering a section recorded as set up whose saved layout is absent or
\* empty creates exactly the template panels whose id is in the recorded
\* selection, each at the template's default geometry, and shows no dialog
C7_Fallback ==
  [][(last'.op = "loadSection" /\ setupSections[last'.id] /\ savedLayouts[last'.id] = <<>>) =>
       LET s        == last'.id
           selected == SeqToSet(sectionPanelSelections[s])
       IN /\ dialogs' = dialogs
          /\ TrackedIds(panels') = {id \in selected : TemplatePos(s, id) > 0}
          /\ Len(panels') = Cardinality(TrackedIds(panels'))
          /\ \A i \in DOMAIN panels' :
               CreatedFrom(<<panels'[i]>>, dom', <<layouts[s][TemplatePos(s, panels'[i].id)]>>, s)
    ]_vars

\* a section recorded as set up, with a selection naming part of its template
\* and no saved layout, was just entered: the selected panels are there, an
\* unselected template panel is not
C7_Witness ==
  /\ last.op = "loadSection"
  /\ last.arg = <<"fallback">>
  /\ savedLayouts[last.id] = <<>>
  /\ panels # <<>>
  /\ \E i \in DOMAIN layouts[last.id] : layouts[last.id][i].id \notin TrackedIds(panels)
  /\ dialogs = <<>>

\* C11: setup is one-way: a section recorded as set up stays so for the rest
\* of the run, and no entry to a section recorded as set up shows the setup
\* dialog
C11_SetupOneWay ==
  [][/\ \A s \in Sections : setupSections[s] => setupSections'[s]
     /\ (last'.op = "loadSection" /\ setupSections[last'.id]) =>
          (dialogs' = dialogs /\ last'.arg # <<"dialog">>)
    ]_vars

\* a section set up with nothing selected and nothing saved was entered again:
\* it shows no panel and no dialog
C11_Witness ==
  /\ last.op = "loadSection"
  /\ last.arg = <<"fallback">>
  /\ setupSections[last.id]
  /\ sectionPanelSelections[last.id] = <<>>
  /\ savedLayouts[last.id] = <<>>
  /\ panels = <<>>
  /\ dialogs = <<>>

\* a saveState request carrying the setup of section s and its selection was issued
SetupSent(s) ==
  /\ sent # NoState
  /\ sent[1].setupSections[s]
  /\ sent[1].sectionPanelSelections[s] = sectionPanelSelections[s]

\* C12 as claimed: once the setup dialog of a section is confirmed, with any
\* subset of panels, the saveState request carrying the section's setup and
\* selection has been issued or is due from a pending timer, no further user
\* action being needed
C12_Original ==
  \A s \in Sections : setupSections[s] => (SetupSent(s) \/ saveTimers > 0)

\* the ids and geometry the tracked panels' elements carry, in store order
StyleGeometry(P, D) ==
  [i \in DOMAIN P |-> [id     |-> D[P[i].element].id,
                       x      |-> ParseInt(D[P[i].element].left),
                       y      |-> ParseInt(D[P[i].element].top),
                       width  |-> ParseInt(D[P[i].element].width),
                       height |-> ParseInt(D[P[i].element].height)]]

LayoutGeometry(cfgs) ==
  [i \in DOMAIN cfgs |-> [id |-> cfgs[i].id, x |-> cfgs[i].x, y |-> cfgs[i].y,
                          width |-> cfgs[i].width, height |-> cfgs[i].height]]

\* C13: entering a section with a non-empty saved layout creates the panels
\* from the saved entries exactly: same ids, same x, y, width, height, same
\* order, the template's geometry being used for none of them
C13_SavedVerbatim ==
  [][(last'.op = "loadSection" /\ savedLayouts[last'.id] # <<>>) =>
       /\ last'.arg = <<"saved">>
       /\ StyleGeometry(panels', dom') = LayoutGeometry(savedLayouts[last'.id])
       /\ \A i \in DOMAIN panels' : panels'[i].config = savedLayouts[last'.id][i]
    ]_vars

\* a section was entered whose saved layout places a template panel elsewhere
\* than the template does
C13_Witness ==
  /\ last.op = "loadSection"
  /\ last.arg = <<"saved">>
  /\ panels # <<>>
  /\ \E i \in DOMAIN savedLayouts[last.id] :
       LET e == savedLayouts[last.id][i] IN
       /\ TemplatePos(last.id, e.id) > 0
       /\ e.x # layouts[last.id][TemplatePos(last.id, e.id)].x
       /\ StyleGeometry(panels, dom)[i].x = e.x

\* C17 as claimed: in every saveState request the layout of each section
\* holds only ids of that section's template that are in the user's selection
\* for the section
C17_Original ==
  sent # NoState =>
    \A s \in Sections :
      \A i \in DOMAIN sent[1].panelLayouts[s] :
        /\ TemplatePos(s, sent[1].panelLayouts[s][i].id) > 0
        /\ sent[1].panelLayouts[s][i].id \in SeqToSet(sent[1].sectionPanelSelections[s])

----------------------------------------------------------------------------
(* Claims about the PanelSystem *)

ZOf(el) == ParseIntOrZero(el.zIndex)

\* left, top, width and height of every tracked panel
Geometry(P, D) ==
  [i \in DOMAIN P |-> [id     |-> P[i].id,
                       left   |-> D[P[i].element].left,
                       top    |-> D[P[i].element].top,
                       width  |-> D[P[i].element].width,
                       height |-> D[P[i].element].height]]

\* C1: the store never holds two instances with the same id, whatever sequence
\* of createPanel (also with an id already tracked), removePanel and
\* clearAllPanels was made: one entry per tracked id
C1_UniqueIds ==
  /\ \A i, j \in DOMAIN panels : panels[i].id = panels[j].id => i = j
  /\ Cardinality(TrackedIds(panels)) = Len(panels)
  /\ Cardinality(TrackedEls(panels)) = Len(panels)

\* createPanel was just called with an id that was already tracked: the earlier
\* element is still in the container, and the store holds the id once
C1_Witness ==
  /\ last.op = "createPanel"
  /\ \E h \in DOMAIN dom :
       /\ h \notin TrackedEls(panels)
       /\ dom[h].parent # NoParent
       /\ dom[h].id \in TrackedIds(panels)

\* the position the last drag() wrote lies inside the container on both axes
DragInside(el) ==
  /\ ParseInt(el.left) >= 0
  /\ ParseInt(el.top) >= 0
  /\ ParseInt(el.left) + offsetWidth(el) <= container.width
  /\ ParseInt(el.top) + offsetHeight(el) <= container.height

\* C2 as claimed: for every pointer position and every panel and container
\* size, the position written by drag() keeps the whole panel in the container
C2_Original ==
  (last.op = "drag" /\ ~threw) => DragInside(dom[draggingPanel])

\* C2 amended: drag() never writes a negative position; on an axis where the
\* panel is no larger than the container the panel stays inside it, and on an
\* axis where it is larger the position written is 0
C2_DragClamped ==
  (last.op = "drag" /\ ~threw) =>
    LET el == dom[draggingPanel] IN
    /\ ParseInt(el.left) >= 0
    /\ ParseInt(el.top) >= 0
    /\ IF offsetWidth(el) <= container.width
         THEN ParseInt(el.left) + offsetWidth(el) <= container.width
         ELSE ParseInt(el.left) = 0
    /\ IF offsetHeight(el) <= container.height
         THEN ParseInt(el.top) + offsetHeight(el) <= container.height
         ELSE ParseInt(el.top) = 0

\* a drag with the pointer beyond the container has put a panel that fits at
\* the container's far edges
C2_Witness ==
  /\ last.op = "drag"
  /\ ~threw
  /\ LET el == dom[draggingPanel] IN
     /\ offsetWidth(el) > 0
     /\ offsetWidth(el) < container.width
     /\ ParseInt(el.left) + offsetWidth(el) = container.width
     /\ ParseInt(el.top) + offsetHeight(el) = container.height

\* C3 as claimed: getPanelState() followed at once by restorePanelState() of
\* its result leaves the geometry of every tracked panel unchanged, hidden
\* panels included
C3_Original ==
  [][last'.op = "snapshotRestore" => Geometry(panels', dom') = Geometry(panels, dom)]_vars

\* C8: getHighestZIndex() is 0 on an empty store, and right after a drag starts
\* on a tracked panel its stacking order is strictly above that of every other
\* tracked panel
C8_DraggedOnTop ==
  /\ panels = <<>> => getHighestZIndex(panels, dom) = 0
  /\ (last.op = "startDrag" /\ draggingPanel \in TrackedEls(panels)) =>
       \A h \in TrackedEls(panels) \ {draggingPanel} :
         ZOf(dom[draggingPanel]) > ZOf(dom[h])

\* a drag has just started on a tracked panel while another tracked panel had
\* been raised by an earlier drag
C8_Witness ==
  /\ last.op = "startDrag"
  /\ draggingPanel \in TrackedEls(panels)
  /\ \E h \in TrackedEls(panels) \ {draggingPanel} : ZOf(dom[h]) >= 1

\* the panels that carry the dragging marker
DraggingMarked == {h \in DOMAIN dom : dom[h].dragging}

\* C15 as claimed: at most one panel carries the dragging marker, and that
\* panel is the active drag target, also after a second pointer-down on
\* another panel's header while a drag is active
C15_Original ==
  /\ Cardinality(DraggingMarked) <= 1
  /\ DraggingMarked \subseteq {draggingPanel}

NoOpCalls == {"removePanel", "showPanel", "hidePanel", "togglePanel"}

\* C9: removePanel, showPanel, hidePanel and togglePanel with an id that is not
\* tracked raise no error and change neither the store nor any element
C9_UnknownIdNoOp ==
  [][(last'.op \in NoOpCalls /\ last'.id \notin TrackedIds(panels)) =>
       (panels' = panels /\ dom' = dom /\ ~threw')]_vars

\* hidePanel has just been called with an untracked id on a non-empty store
C9_Witness ==
  /\ last.op = "hidePanel"
  /\ last.id \notin TrackedIds(panels)
  /\ panels # <<>>
  /\ ~threw

\* the geometry restorePanelState(state) leaves on the panel with this id: that
\* of the last entry of state naming it, or the old one when none does
RECURSIVE RestoredGeometry(_, _)
RestoredGeometry(g, state) ==
  IF state = <<>> THEN g
  ELSE RestoredGeometry(
         IF Head(state).id = g.id
           THEN [id |-> g.id, left |-> <<Head(state).x>>, top |-> <<Head(state).y>>,
                 width |-> <<Head(state).width>>, height |-> <<Head(state).height>>]
           ELSE g,
         Tail(state))

\* C10: restorePanelState never changes which panels are tracked: matching
\* entries overwrite geometry, entries without a tracked panel are dropped and
\* create nothing, panels not mentioned keep their geometry
C10_RestoreFrame ==
  [][last'.op = "restorePanelState" =>
       /\ panels' = panels
       /\ DOMAIN dom' = DOMAIN dom
       /\ Geometry(panels', dom') =
            [i \in DOMAIN panels |->
               RestoredGeometry(Geometry(panels, dom)[i], last'.arg)]]_vars

\* a state naming an untracked id and a tracked one was just restored, on a
\* store that also tracks a panel the state does not mention
C10_Witness ==
  /\ last.op = "restorePanelState"
  /\ \E i \in DOMAIN last.arg : last.arg[i].id \notin TrackedIds(panels)
  /\ \E i \in DOMAIN last.arg : last.arg[i].id \in TrackedIds(panels)
  /\ \E id \in TrackedIds(panels) : \A i \in DOMAIN last.arg : last.arg[i].id # id

----------------------------------------------------------------------------
(* Claims about drags in the App *)

\* C14: every pointer-up that ends an active drag returns the controller to
\* Idle and invokes the completion callback, hence one saveState request,
\* exactly once, however many document-level listeners have accumulated; a
\* pointer-up while Idle invokes no callback
C14_StopDragOnce ==
  [][last'.op = "mouseup" =>
       IF draggingPanel # NoPanel
         THEN /\ draggingPanel' = NoPanel
              /\ DraggingMarked' \cap {draggingPanel} = {}
              /\ last'.arg[1] = 1
              /\ sent' # NoState
              /\ sent'[1].panelLayouts = savedLayouts'
         ELSE /\ draggingPanel' = NoPanel
              /\ last'.arg[1] = 0
              /\ sent' = sent
              /\ savedLayouts' = savedLayouts
    ]_vars

\* a pointer-up has just ended a drag with three listeners registered, the
\* callback having run once
C14_Witness ==
  /\ last.op = "mouseup"
  /\ last.arg = <<1, 3>>
  /\ draggingPanel = NoPanel
  /\ sent # NoState

\* C16: getPanelState() reports the live geometry of every tracked panel, not
\* the configuration it was created with; when a drag of a tracked panel ends,
\* the snapshot and the layout saved for the current section record the
\* position the drag left the panel at
C16_LiveGeometry ==
  [][/\ \A i \in DOMAIN panels' :
          LET e  == getPanelState(panels', dom')[i]
              el == dom'[panels'[i].element]
          IN /\ e.id = panels'[i].id
             /\ e.x = ParseInt(el.left)
             /\ e.y = ParseInt(el.top)
             /\ e.width = offsetWidth(el)
             /\ e.height = offsetHeight(el)
     /\ (last'.op = "mouseup" /\ draggingPanel \in TrackedEls(panels)) =>
          \E i \in DOMAIN savedLayouts'[currentSection] :
            LET e == savedLayouts'[currentSection][i] IN
            /\ e.id = dom[draggingPanel].id
            /\ e.x = ParseInt(dom[draggingPanel].left)
            /\ e.y = ParseInt(dom[draggingPanel].top)
            /\ e = getPanelState(panels', dom')[i]
    ]_vars

\* a drag has moved a tracked panel away from the position of its
\* configuration, and the layout saved when the drag ended holds the new position
C16_Witness ==
  /\ last.op = "mouseup"
  /\ last.arg[1] = 1
  /\ \E i \in DOMAIN panels :
       /\ ParseInt(dom[panels[i].element].left) # panels[i].config.x
       /\ i \in DOMAIN savedLayouts[currentSection]
       /\ savedLayouts[currentSection][i].id = panels[i].id
       /\ savedLayouts[currentSection][i].x = ParseInt(dom[panels[i].element].left)

----------------------------------------------------------------------------
(* Claims about startup and persistence *)

\* something of the App is on screen or in use: the home screen, a project's
\* sections, panels
Rendered ==
  \/ homeRendered
  \/ isProjectLoaded
  \/ currentSection # ""
  \/ panels # <<>>
  \/ dom # <<>>
  \/ dialogs # <<>>

\* C19: in one run of the application the renderer sends 'get-layout-state'
\* once, exactly once from the moment init waits; nothing is rendered and
\* isReady is false until the reply has been received and applied
C19_StartupOrder ==
  /\ requests <= 1
  /\ rendererPhase \in {"awaiting", "ready"} => requests = 1
  /\ rendererPhase \in {"none", "loading"} => requests = 0
  /\ (Rendered \/ isReady) => rendererPhase = "ready"
  /\ rendererPhase = "ready" => (isReady /\ homeRendered)

\* the reply was applied, the home screen rendered, and a project's panels are
\* on screen after the one request
C19_Witness ==
  /\ isReady
  /\ homeRendered
  /\ requests = 1
  /\ panels # <<>>
  /\ currentLayoutState # NoState

\* the App's persisted fields as the constructor leaves them
FreshApp ==
  /\ savedLayouts = [s \in Sections |-> <<>>]
  /\ setupSections = [s \in Sections |-> FALSE]
  /\ sectionPanelSelections = [s \in Sections |-> <<>>]

\* C20: no call of the main process ends with an uncaught error; when the
\* state file cannot be read or parsed the loaded state is null, and an App
\* that is given null starts with no saved layouts, setups or selections; when
\* a save message has been handled, currentLayoutState is the state it
\* carried, whether the write succeeded or not
C20_FailuresSwallowed ==
  [][/\ ~mainThrew'
     /\ (/\ ~mainRunning
         /\ mainRunning'
         /\ \/ stateFile.kind = "garbage"
            \/ stateFile.kind = "json" /\ ~last'.arg[1])
          => currentLayoutState' = NoState
     /\ (/\ rendererPhase = "awaiting"
         /\ rendererPhase' = "ready"
         /\ currentLayoutState = NoState)
          => FreshApp'
     /\ (/\ mainRunning'
         /\ toMain # <<>>
         /\ Head(toMain).type = "save-layout-state"
         /\ toMain' = Tail(toMain))
          => currentLayoutState' = Head(toMain).state
    ]_vars

\* the state file was unreadable text, a save was handled whose write failed,
\* and currentLayoutState holds the state of that save
C20_Witness ==
  /\ last.op = "save-layout-state"
  /\ last.id = "failed"
  /\ stateFile.kind = "garbage"
  /\ currentLayoutState = last.arg
  /\ currentLayoutState # NoState
  /\ ~mainThrew

----------------------------------------------------------------------------
(* Claims about the final save *)

\* the application quits in this step
Quits == mainRunning /\ ~mainRunning'

\* C21: when the application quits with no state in memory the state file is
\* left as it was; with a state in memory the file is written from it: the
\* file then holds that state when the last write succeeded, and otherwise
\* that state, what it held before, or partial text. The state in memory
\* changes only when the file is loaded at the start and when a save message
\* is handled, to the state the message carries
C21_FinalSave ==
  [][/\ (Quits /\ currentLayoutState = NoState) => stateFile' = stateFile
     /\ (Quits /\ currentLayoutState # NoState) =>
          /\ last'.id = "ok" => stateFile' = stringify(currentLayoutState)
          /\ stateFile' \in {stringify(currentLayoutState), stateFile, FileGarbage}
     /\ (currentLayoutState' # currentLayoutState /\ mainRunning /\ mainRunning') =>
          /\ toMain # <<>>
          /\ Head(toMain).type = "save-layout-state"
          /\ currentLayoutState' = Head(toMain).state
     /\ (~mainRunning /\ mainRunning') =>
          currentLayoutState' \in {NoState, stateFile.value}
    ]_vars

\* the application has quit with a state received from the renderer in memory
\* that the file did not hold, and the file now holds it
C21_Witness ==
  /\ last.op = "quit"
  /\ last.id = "ok"
  /\ stateFile.kind = "json"
  /\ stateFile.value # NoState
  /\ stateFile.value # <<SavedState>>
  /\ stateFile.value # <<FallbackState>>

----------------------------------------------------------------------------
(* Claims about the layout without the editor *)

\* C22: when adjustCharacterPanelLayout has run with editorVisible false, the
\* list panel is at (0,0) and as wide and as high as the container, and the
\* editor panel has the position and the size it had; when the call is all
\* the handler does (the timer of initializeCharacterViews, the resize
\* listener), the editor panel is as it was in every respect
C22_ListFull ==
  [][(last'.op = "adjustCharacterPanelLayout" /\ last'.arg = <<FALSE>>) =>
       LET L == GetElementById(dom', "character-list")
           E == GetElementById(dom, "character-editor")
       IN /\ L # NoPanel =>
               /\ dom'[L].left = Px(0)
               /\ dom'[L].top = Px(0)
               /\ dom'[L].width = Px(ContainerSize.width)
               /\ dom'[L].height = Px(ContainerSize.height)
          /\ E # NoPanel =>
               /\ dom'[E].left = dom[E].left
               /\ dom'[E].top = dom[E].top
               /\ dom'[E].width = dom[E].width
               /\ dom'[E].height = dom[E].height
               /\ (adjustTimers' # adjustTimers \/ resizeTimer' # resizeTimer) =>
                    dom'[E] = dom[E]
    ]_vars

\* the layout ran with editorVisible false in a container of some width, the
\* list panel fills it and the editor panel, hidden, keeps the geometry of its
\* configuration
C22_Witness ==
  /\ last.op = "adjustCharacterPanelLayout"
  /\ last.arg = <<FALSE>>
  /\ container.width > 0
  /\ LET L == GetElementById(dom, "character-list")
         E == GetElementById(dom, "character-editor")
     IN /\ L # NoPanel
        /\ E # NoPanel
        /\ dom[L].width = Px(container.width)
        /\ dom[L].width # dom[E].width
        /\ dom[E].display = "none"
        /\ dom[E].width # Px(0)

----------------------------------------------------------------------------
(* Claims about the bounds of the split *)

\* floor(W x maxEditorFraction) for the container and the view of this state
EditorCapNow == FloorPct(container.width, currentView)

\* C24 as claimed: whenever the editor is visible, for every container width
\* and view mode the editor width does not exceed floor(W x maxEditorFraction)
C24_Original ==
  SplitApplied => EditorWidthNow <= EditorCapNow

\* C24 amended: whenever the editor is visible, the editor width does not
\* exceed floor(W x maxEditorFraction) for every container width at which that
\* cap is at least 320 (W >= 458, W >= 493 in the importance view); at every
\* narrower width the editor width is 320, above the cap
C24_EditorCap ==
  SplitApplied =>
    /\ EditorCapNow >= MinEditorPx => EditorWidthNow <= EditorCapNow
    /\ EditorCapNow < MinEditorPx =>
         (EditorWidthNow = MinEditorPx /\ EditorWidthNow > EditorCapNow)
    /\ EditorCapNow >= MinEditorPx <=>
         container.width >= (IF currentView = "importance" THEN 493 ELSE 458)

\* the split has run in the card view at a width where the cap is above 320,
\* and the editor is wider than 320 and within the cap
C24_Witness ==
  /\ SplitApplied
  /\ currentView = "card"
  /\ container.width = 1000
  /\ EditorWidthNow > MinEditorPx
  /\ EditorWidthNow <= EditorCapNow

\* the right edge of the editor panel
EditorRightNow ==
  ParseInt(dom[GetElementById(dom, "character-editor")].left) + EditorWidthNow

----------------------------------------------------------------------------
(* Claims about the shared sort and filter state *)

\* C23: a change of the sort order or of a filter in the view on screen is
\* written to the shared state, nothing else changes the shared state, and
\* every view constructed (on a switch of views, on a refresh, on an entry of
\* the characters section) has the sort order and the filters of the shared
\* state, that is those last set
C23_SharedViewState ==
  [][/\ characterViewState' # characterViewState =>
          /\ last'.op \in {"sort", "importanceFilter", "genderFilter"}
          /\ viewInstance' = << characterViewState' >>
     /\ viewInstance' # NoView => viewInstance' = << characterViewState' >>
    ]_vars

\* the sort order and a filter of each kind were changed, the characters section was
\* left and entered again, and the view constructed on entry has them
C23_Witness ==
  /\ last.op = "loadSection"
  /\ last.id = "characters"
  /\ last.arg = <<"saved">>
  /\ savedLayouts["plotting"] # <<>>
  /\ viewInstance # NoView
  /\ viewInstance[1].sortBy = "name-desc"
  /\ viewInstance[1].importanceFilter = {"secondary", "tertiary"}
  /\ viewInstance[1].genderFilter = {"female", "other"}

\* C26: when a setup dialog resolves, every panel the store tracks belongs to
\* the current section and no panel id is tracked twice, whatever section
\* switches were made while the dialog was open
C26_Original ==
  last.op = "setupConfirmed" =>
    /\ \A i \in DOMAIN panels : TemplatePos(currentSection, panels[i].id) > 0
    /\ \A i, j \in DOMAIN panels : panels[i].id = panels[j].id => i = j

\* C27: a removePanel or clearAllPanels made while a drag is active leaves the
\* drag's target a panel the store tracks and an element attached to a
\* container
C27_Original ==
  [][(draggingPanel # NoPanel /\ last'.op \in {"removePanel", "clearAllPanels"}) =>
       (draggingPanel' # NoPanel =>
          /\ draggingPanel' \in TrackedEls(panels')
          /\ dom'[draggingPanel'].parent # NoParent)]_vars

\* C28: the character editor, hidden by its template and never shown, is
\* hidden with its template's width and height whenever the characters section
\* has just been entered from its saved layout
C28_Original ==
  (last.op = "loadSection" /\ last.id = "characters" /\ last.arg = <<"saved">>) =>
    \A i \in DOMAIN panels :
      panels[i].id = "character-editor" =>
        /\ dom[panels[i].element].display = "none"
        /\ dom[panels[i].element].width = Px(layouts["characters"][2].width)
        /\ dom[panels[i].element].height = Px(layouts["characters"][2].height)

----------------------------------------------------------------------------
(* Claims about the CharacterManager *)

\* C30: after any sequence of createCharacter, updateCharacter and
\* loadCharacterData every character's flag id is canonical: none is stored as
\* 'Primary', 'Secondary' or 'Tertiary', and every character is among those
\* getCharactersByFlag returns for one of the flags of getAllFlags
C30_Original ==
  \A i \in DOMAIN characters :
    /\ characters[i].flagId \notin {"Primary", "Secondary", "Tertiary"}
    /\ \E j \in DOMAIN getAllFlags :
         characters[i] \in SeqToSet(getCharactersByFlag(getAllFlags[j]))

====
